---- MODULE Spec2Model ----
(***************************************************************************)
(* A model of the iDDS Transformer agent                                   *)
(* (src/main/lib/idds/agents/transformer/transformer.py).                  *)
(*                                                                         *)
(* Six specifications share the module:                                    *)
(*   SpecContents  the content engine (get_updated_contents) applied to    *)
(*                 registered input/output maps drawn from bounded sets;   *)
(*   SpecPass      one update pass (handle_update_transform_real) applied  *)
(*                 to a transform, a Work and registered maps, and the     *)
(*                 next pass on what the store holds after the first;      *)
(*   Spec          the agent: run(), sweeps, event handlers on concurrent  *)
(*                 workers and the clean-locking task, each in the steps   *)
(*                 between which the threads interleave;                   *)
(*   SpecHandler   one handler: a process_*_transform method called with   *)
(*                 an event, and the lines of the method that follow       *)
(*                 self.get_transform run for a transform: the bundle of   *)
(*                 the handle_* method, update_transform with its retries  *)
(*                 and its fallback write, and the sends;                  *)
(*   SpecLive      Spec with run() and the tasks run() has created         *)
(*                 scheduled fairly;                                       *)
(*   SpecNew       one new pass (handle_new_transform_real) and the first  *)
(*                 update pass on what the store holds after it.           *)
(*                                                                         *)
(* self.<name> is resolved against the methods class Transformer defines.  *)
(* BaseAgent, its base class, is not part of the source at hand.  A name   *)
(* the system description gives as an operation of the repository          *)
(* (get_transform_message) is taken as that operation; the names that are  *)
(* variants of a method the class defines under another name               *)
(* (get_transform for get_request, process_running_transform_real for      *)
(* handle_update_transform_real, process_*_request for                     *)
(* process_*_transform) raise AttributeError where they are used.          *)
(***************************************************************************)
EXTENDS Integers, Sequences, FiniteSets, TLC

VARIABLES
    regmaps,    \* SpecContents: the registered_input_output_maps handed in
    updres,     \* SpecContents: what get_updated_contents returned
    passIn,     \* SpecPass, SpecNew: the transform, Work, maps, repository answers
    passOut,    \* SpecPass, SpecNew: the bundle the pass returned
    passAgain,  \* SpecPass, SpecNew: the next pass on the stored result
    tf,         \* Spec: the transform rows of the store, by transform_id
    lock,       \* Spec: per row, who holds the lock, its age, who released it
    bus,        \* Spec: the events waiting on the event bus
    number_workers, \* Spec: self.number_workers
    wk,         \* Spec: per worker thread, where its handler stands
    run,        \* Spec: where run() stands and self.event_func_map
    ops,        \* Spec: the operator events published so far
    sweep,      \* Spec: per sweep, where its run stands and the rows to send
    hnd,        \* SpecHandler: the method called, its arguments and locals
    db,         \* SpecHandler: the store: the row, the message, the writes
    sent        \* SpecHandler: the events the call has published, in order

cvars == <<regmaps, updres>>
pvars == <<passIn, passOut, passAgain>>
avars == <<tf, lock, bus, number_workers, wk, run, ops, sweep>>
hvars == <<hnd, db, sent>>
vars == <<cvars, pvars, avars, hvars>>

AgentIdle ==
    /\ tf = <<>> /\ lock = <<>> /\ bus = {} /\ number_workers = 0
    /\ wk = <<>> /\ run = [pc |-> "start"] /\ ops = 0
    /\ sweep = <<>>

HandlerIdle == hnd = [pc |-> "idle"] /\ db = <<>> /\ sent = <<>>

(***************************************************************************)
(* Helpers on sequences.                                                   *)
(***************************************************************************)
Range(s) == {s[i] : i \in DOMAIN s}

RECURSIVE Flatten(_)
Flatten(ss) == IF ss = <<>> THEN <<>> ELSE Head(ss) \o Flatten(Tail(ss))

SeqsUpTo(S, n) == UNION {[1..k -> S] : k \in 0..n}

(***************************************************************************)
(* Content statuses (idds.common.constants.ContentStatus, by name).        *)
(***************************************************************************)
AvailableStatuses == {"Available", "FakeAvailable"}
TerminatedStatuses == {"Available", "FakeAvailable", "FinalFailed", "Missing"}

(***************************************************************************)
(* Dependency predicates.                                                  *)
(***************************************************************************)
is_all_inputs_dependency_available_OnlyAvailable(inputs_dependency) ==
    \A i \in DOMAIN inputs_dependency : inputs_dependency[i].status = "Available"

is_all_inputs_dependency_available(inputs_dependency) ==
    \A i \in DOMAIN inputs_dependency :
        inputs_dependency[i].status \in AvailableStatuses

is_all_inputs_dependency_terminated_NoMissing(inputs_dependency) ==
    \A i \in DOMAIN inputs_dependency :
        inputs_dependency[i].status \in {"Available", "FakeAvailable", "FinalFailed"}

is_all_inputs_dependency_terminated(inputs_dependency) ==
    \A i \in DOMAIN inputs_dependency :
        inputs_dependency[i].status \in TerminatedStatuses

(***************************************************************************)
(* get_updated_contents, one map at a time.  A content is a record         *)
(* [content_id, name, coll_id, status, substatus, bytes]; an update record *)
(* is [content_id, status, substatus], where the flush loop of lines       *)
(* 322-328 writes no substatus key ("absent").                             *)
(***************************************************************************)
SetBoth(content, st) == [content EXCEPT !.status = st, !.substatus = st]

UpdateRecord(content, st) ==
    [content_id |-> content.content_id, status |-> st, substatus |-> st]

FlushRecord(content) ==
    [content_id |-> content.content_id, status |-> content.substatus,
     substatus |-> "absent"]

\* the loop body of lines 292-300 / 303-311 / 312-320 over one list
MoveAll(contents, st) == [i \in DOMAIN contents |-> SetBoth(contents[i], st)]
Moved(contents, st) == SelectSeq(contents, LAMBDA c : c.status # st)
MovedRecords(contents, st) ==
    LET ch == Moved(contents, st) IN [i \in DOMAIN ch |-> UpdateRecord(ch[i], st)]
MovedFull(contents, st) ==
    LET ch == Moved(contents, st) IN [i \in DOMAIN ch |-> SetBoth(ch[i], st)]

\* the flush loop of lines 322-328
Unflushed(outputs) == SelectSeq(outputs, LAMBDA c : c.status # c.substatus)
\* a flush that records the updates and leaves the contents as they are
FlushAll_RecordsOnly(outputs) == outputs

FlushAll(outputs) ==
    [i \in DOMAIN outputs |-> [outputs[i] EXCEPT !.status = outputs[i].substatus]]
FlushRecords(outputs) ==
    LET ch == Unflushed(outputs) IN [i \in DOMAIN ch |-> FlushRecord(ch[i])]
FlushFull(outputs) ==
    LET ch == Unflushed(outputs)
    IN  [i \in DOMAIN ch |-> [ch[i] EXCEPT !.status = ch[i].substatus]]

UpdateMap(m) ==
    LET avail == is_all_inputs_dependency_available(m.inputs_dependency)
        term  == ~avail /\ is_all_inputs_dependency_terminated(m.inputs_dependency)
        tgt   == IF avail THEN "Available" ELSE "Missing"
        ins   == IF avail \/ term THEN MoveAll(m.inputs, tgt) ELSE m.inputs
        inrec == IF avail \/ term THEN MovedRecords(m.inputs, tgt) ELSE <<>>
        infull == IF avail \/ term THEN MovedFull(m.inputs, tgt) ELSE <<>>
        outs1 == IF term THEN MoveAll(m.outputs, "Missing") ELSE m.outputs
        outrec1 == IF term THEN MovedRecords(m.outputs, "Missing") ELSE <<>>
        outfull1 == IF term THEN MovedFull(m.outputs, "Missing") ELSE <<>>
    IN  [map |-> [m EXCEPT !.inputs = ins, !.outputs = FlushAll(outs1)],
         updated_contents |-> inrec \o outrec1 \o FlushRecords(outs1),
         updated_input_contents_full |-> infull,
         updated_output_contents_full |-> outfull1 \o FlushFull(outs1)]

get_updated_contents(registered_input_output_maps) ==
    LET r == [i \in DOMAIN registered_input_output_maps |->
                 UpdateMap(registered_input_output_maps[i])]
    IN  [maps |-> [i \in DOMAIN r |-> r[i].map],
         updated_contents |-> Flatten([i \in DOMAIN r |-> r[i].updated_contents]),
         updated_input_contents_full |->
             Flatten([i \in DOMAIN r |-> r[i].updated_input_contents_full]),
         updated_output_contents_full |->
             Flatten([i \in DOMAIN r |-> r[i].updated_output_contents_full])]

(***************************************************************************)
(* trigger_release_inputs and poll_inputs_dependency: what each hands to   *)
(* the repository, grouped by coll_id (a function coll_id -> contents).    *)
(***************************************************************************)
AllOf(maps, role) == Flatten([i \in DOMAIN maps |-> maps[i][role]])

GroupByColl(contents) ==
    [c \in {contents[i].coll_id : i \in DOMAIN contents} |->
        SelectSeq(contents, LAMBDA x : x.coll_id = c)]

to_release_inputs_StatusOnly(input_output_maps) ==
    GroupByColl(SelectSeq(AllOf(input_output_maps, "outputs"),
        LAMBDA content : content.status \in TerminatedStatuses))

to_release_inputs(input_output_maps) ==
    GroupByColl(SelectSeq(AllOf(input_output_maps, "outputs"),
        LAMBDA content : \/ content.status \in TerminatedStatuses
                         \/ content.substatus \in TerminatedStatuses))

unfinished_inputs(registered_input_output_maps) ==
    GroupByColl(SelectSeq(AllOf(registered_input_output_maps, "inputs_dependency"),
        LAMBDA content : /\ content.status \notin TerminatedStatuses
                         /\ content.substatus \notin TerminatedStatuses))

(***************************************************************************)
(* reactive_contents.                                                      *)
(***************************************************************************)
ResetRecord(content) ==
    [content_id |-> content.content_id, status |-> "New", substatus |-> "New"]

ReactiveMap_AnyAvailable(m) ==
    LET io == m.inputs \o m.outputs
    IN  IF \E i \in DOMAIN m.outputs : m.outputs[i].status = "Available" THEN <<>>
        ELSE [i \in DOMAIN io |-> ResetRecord(io[i])]

ReactiveMap_AllDependencies(m) ==
    LET io == m.inputs \o m.outputs \o m.inputs_dependency
    IN  IF \A i \in DOMAIN m.outputs : m.outputs[i].status = "Available" THEN <<>>
        ELSE [i \in DOMAIN io |-> ResetRecord(io[i])]

ReactiveMap(m) ==
    LET all_outputs_available ==
            \A i \in DOMAIN m.outputs : m.outputs[i].status = "Available"
        io == m.inputs \o m.outputs
        deps == SelectSeq(m.inputs_dependency, LAMBDA c : c.status # "Available")
    IN  IF all_outputs_available THEN <<>>
        ELSE [i \in DOMAIN io |-> ResetRecord(io[i])]
                 \o [i \in DOMAIN deps |-> ResetRecord(deps[i])]

reactive_contents(input_output_maps) ==
    Flatten([i \in DOMAIN input_output_maps |-> ReactiveMap(input_output_maps[i])])

(***************************************************************************)
(* syn_collection_status.  A collection is [coll_id, status, collection],  *)
(* collection being the counters of its row.                               *)
(***************************************************************************)
RECURSIVE SumBytes(_)
SumBytes(contents) ==
    IF contents = <<>> THEN 0 ELSE Head(contents).bytes + SumBytes(Tail(contents))

ProcessedInputStatuses == {"Available", "Mapped", "FakeAvailable"}
ProcessedOutputStatuses == {"Available", "FakeAvailable"}

CollStatus_AllProcessing(contents, coll_id, processed) ==
    LET mine == SelectSeq(contents, LAMBDA c : c.coll_id = coll_id)
        done == SelectSeq(mine, LAMBDA c : c.status \in processed)
    IN  [seen |-> mine # <<>>,
         total_files |-> Len(mine),
         processed_files |-> Len(done),
         processing_files |-> Len(mine),
         bytes |-> SumBytes(done)]

CollStatus(contents, coll_id, processed) ==
    LET mine == SelectSeq(contents, LAMBDA c : c.coll_id = coll_id)
        done == SelectSeq(mine, LAMBDA c : c.status \in processed)
    IN  [seen |-> mine # <<>>,
         total_files |-> Len(mine),
         processed_files |-> Len(done),
         processing_files |-> Len(mine) - Len(done),
         bytes |-> SumBytes(done)]

\* lines 724-728: an input collection gets three counters, no bytes
SynInputCollection(coll, inputs) ==
    LET st == CollStatus(inputs, coll.coll_id, ProcessedInputStatuses)
    IN  IF st.seen
        THEN [coll EXCEPT !.collection.total_files = st.total_files,
                          !.collection.processed_files = st.processed_files,
                          !.collection.processing_files = st.processing_files]
        ELSE coll

\* lines 730-742: output and log collections get the four counters
SynOutputCollection(coll, contents) ==
    LET st == CollStatus(contents, coll.coll_id, ProcessedOutputStatuses)
    IN  IF st.seen
        THEN [coll EXCEPT !.collection.total_files = st.total_files,
                          !.collection.processed_files = st.processed_files,
                          !.collection.processing_files = st.processing_files,
                          !.collection.bytes = st.bytes]
        ELSE coll

syn_collection_status(input_collections, output_collections, log_collections, registered_input_output_maps) ==
    LET inputs == AllOf(registered_input_output_maps, "inputs")
        outputs == AllOf(registered_input_output_maps, "outputs")
        logs == AllOf(registered_input_output_maps, "logs")
    IN  [input_collections |->
             [i \in DOMAIN input_collections |->
                 SynInputCollection(input_collections[i], inputs)],
         output_collections |->
             [i \in DOMAIN output_collections |->
                 SynOutputCollection(output_collections[i], outputs)],
         log_collections |->
             [i \in DOMAIN log_collections |->
                 SynOutputCollection(log_collections[i], logs)],
         all_updates_flushed |->
             \A i \in DOMAIN outputs : outputs[i].status = outputs[i].substatus,
         output_statistics |->
             [st \in {outputs[i].status : i \in DOMAIN outputs} |->
                 Len(SelectSeq(outputs, LAMBDA c : c.status = st))]]

(***************************************************************************)
(* get_message_type and generate_message.  A message type is the pair      *)
(* <<transform kind, input kind>>, e.g. <<"Processing", "Work">>.          *)
(***************************************************************************)
KnownTransformTypes == {"StageIn", "ActiveLearning", "HyperParameterOpt", "Processing"}

get_message_type(transform_type, input_type) ==
    <<IF transform_type \in KnownTransformTypes THEN transform_type ELSE "Unknown",
      IF input_type = "work" THEN "Work"
      ELSE IF input_type = "collection" THEN "Collection" ELSE "File">>

NoneMsg ==
    [msg_type |-> <<"None", "None">>, status |-> "None", source |-> "None",
     destination |-> "None", transform_id |-> 0, num_contents |-> 0,
     relation_type |-> "None", collections |-> <<>>, files |-> <<>>]

NoWork == [present |-> FALSE]
NoCollection == [present |-> FALSE, coll_id |-> 0, status |-> "None"]

FileMessage(file) ==
    [name |-> file.name,
     status |-> IF file.status = "FakeAvailable" THEN "Available" ELSE file.status]

generate_message(transform, work, collection, files, msg_type, relation_type) ==
    IF msg_type = "work" /\ ~work.present THEN NoneMsg
    ELSE IF msg_type = "collection" /\ ~collection.present THEN NoneMsg
    ELSE IF msg_type \notin {"work", "collection"} /\ files = <<>> THEN NoneMsg
    ELSE [msg_type |-> get_message_type(transform.transform_type, msg_type),
          status |-> "New", source |-> "Transformer", destination |-> "Outside",
          transform_id |-> transform.transform_id,
          num_contents |-> IF msg_type \in {"work", "collection"} THEN 1 ELSE Len(files),
          relation_type |-> relation_type,
          collections |-> IF msg_type = "collection"
                          THEN <<[coll_id |-> collection.coll_id,
                                  status |-> collection.status]>>
                          ELSE <<>>,
          files |-> IF msg_type \in {"work", "collection"} THEN <<>>
                    ELSE [i \in DOMAIN files |-> FileMessage(files[i])]]

(***************************************************************************)
(* get_new_contents.  A content of a Work map is [name, coll_id, min_id,   *)
(* max_id, status, substatus, bytes]; min_id and max_id are optional       *)
(* values [key, null, v] (key absent, value None, or an integer), status   *)
(* and substatus are a status name, "absent" or "None".                    *)
(***************************************************************************)
\* without the None test of lines 185-188 a null id stays, written -1 here
IdOrZero_KeepNull(o) == IF ~o.key THEN 0 ELSE IF o.null THEN -1 ELSE o.v

IdOrZero(o) == IF ~o.key \/ o.null THEN 0 ELSE o.v


StatusOrNew(st) == IF st \in {"absent", "None"} THEN "New" ELSE st

NewContent(map_id, c, relation_type, given_status) ==
    [name |-> c.name, coll_id |-> c.coll_id, map_id |-> map_id,
     min_id |-> IdOrZero(c.min_id), max_id |-> IdOrZero(c.max_id),
     status |-> IF given_status THEN StatusOrNew(c.status) ELSE "New",
     substatus |-> IF given_status THEN StatusOrNew(c.substatus) ELSE "New",
     content_relation_type |-> relation_type, bytes |-> c.bytes]

NewContents(map_id, contents, relation_type, given_status) ==
    [k \in DOMAIN contents |-> NewContent(map_id, contents[k], relation_type, given_status)]

\* line 259 appends the Log contents to new_output_contents; new_log_contents
\* is returned as it was created
get_new_contents(new_input_output_maps) ==
    [new_input_contents |->
        Flatten([i \in DOMAIN new_input_output_maps |->
            NewContents(i, new_input_output_maps[i].inputs, "Input", TRUE)]),
     new_output_contents |->
        Flatten([i \in DOMAIN new_input_output_maps |->
            NewContents(i, new_input_output_maps[i].outputs, "Output", FALSE)
                \o NewContents(i, new_input_output_maps[i].logs, "Log", FALSE)]),
     new_log_contents |-> <<>>,
     new_input_dependency_contents |->
        Flatten([i \in DOMAIN new_input_output_maps |->
            NewContents(i, new_input_output_maps[i].inputs_dependency,
                        "InputDependency", TRUE)])]

(***************************************************************************)
(* The transform state machine of handle_update_transform_real.            *)
(***************************************************************************)
NewStatuses == {"New", "Ready", "Extend"}
RunningStatuses == {"Transforming", "ToCancel", "Cancelling", "ToSuspend", "Suspending",
                    "ToExpire", "Expiring", "ToResume", "Resuming",
                    "ToFinish", "ToForceFinish"}
OperationStatuses == {"ToCancel", "ToSuspend", "ToResume", "ToExpire",
                      "ToFinish", "ToForceFinish"}
TerminalStatuses == {"Finished", "SubFinished", "Failed", "Expired",
                     "Cancelled", "Suspended"}

t_processing_status_None(status) == "None"

\* lines 788-805: the ProcessingStatus stamped on a new processing
t_processing_status(status) ==
    IF status \in OperationStatuses THEN status ELSE "None"

\* lines 933-960
OperationTransition(status) ==
    CASE status = "ToCancel" -> [status |-> "Cancelling", flag |-> "tocancel"]
      [] status = "ToSuspend" -> [status |-> "Suspending", flag |-> "tosuspend"]
      [] status = "ToResume" -> [status |-> "Resuming", flag |-> "toresume"]
      [] status = "ToExpire" -> [status |-> "Expiring", flag |-> "toexpire"]
      [] status = "ToFinish" -> [status |-> "Transforming", flag |-> "tofinish"]
      [] status = "ToForceFinish" -> [status |-> "Transforming", flag |-> "toforcefinish"]

WorkTerminalStatus_FailedFirst(work) ==
    IF work.is_finished THEN "Finished"
    ELSE IF work.is_failed THEN "Failed"
    ELSE IF work.is_subfinished THEN "SubFinished"
    ELSE IF work.is_expired THEN "Expired"
    ELSE IF work.is_cancelled THEN "Cancelled"
    ELSE IF work.is_suspended THEN "Suspended"
    ELSE "Transforming"

\* a chain whose last branch is not Transforming
WorkTerminalStatus_ElseSuspended(work) ==
    IF work.is_finished THEN "Finished"
    ELSE IF work.is_subfinished THEN "SubFinished"
    ELSE IF work.is_failed THEN "Failed"
    ELSE IF work.is_expired THEN "Expired"
    ELSE IF work.is_cancelled THEN "Cancelled"
    ELSE "Suspended"

\* lines 961-1058: the first true predicate selects the status
WorkTerminalStatus(work) ==
    IF work.is_finished THEN "Finished"
    ELSE IF work.is_subfinished THEN "SubFinished"
    ELSE IF work.is_failed THEN "Failed"
    ELSE IF work.is_expired THEN "Expired"
    ELSE IF work.is_cancelled THEN "Cancelled"
    ELSE IF work.is_suspended THEN "Suspended"
    ELSE "Transforming"

TerminalCollectionStatus(status) ==
    CASE status = "Finished" -> "Closed"
      [] status = "SubFinished" -> "SubClosed"
      [] status = "Failed" -> "Failed"
      [] status = "Expired" -> "SubClosed"
      [] status = "Cancelled" -> "Cancelled"
      [] status = "Suspended" -> "Suspended"

next_status_PredicatesFirst(status, work) ==
    IF WorkTerminalStatus(work) # "Transforming" THEN WorkTerminalStatus(work)
    ELSE IF status \in OperationStatuses THEN OperationTransition(status).status
    ELSE "Transforming"

\* the if/elif chain of lines 933-1058
next_status(status, work) ==
    IF status \in OperationStatuses THEN OperationTransition(status).status
    ELSE WorkTerminalStatus(work)

SetCollectionStatus(colls, st) == [i \in DOMAIN colls |-> [colls[i] EXCEPT !.status = st]]

CollectionMessages(transform, work, colls, relation_type) ==
    [i \in DOMAIN colls |->
        generate_message(transform, work, colls[i], <<>>, "collection", relation_type)]

TerminalMessages_NoLog(transform, work, ins, outs, logs) ==
    <<generate_message(transform, work, NoCollection, <<>>, "work", "input")>>
        \o CollectionMessages(transform, work, ins, "input")
        \o CollectionMessages(transform, work, outs, "output")

\* a terminal branch: one Work message, then one Collection message per
\* input, output and log collection (e.g. lines 963-976)
TerminalMessages(transform, work, ins, outs, logs) ==
    <<generate_message(transform, work, NoCollection, <<>>, "work", "input")>>
        \o CollectionMessages(transform, work, ins, "input")
        \o CollectionMessages(transform, work, outs, "output")
        \o CollectionMessages(transform, work, logs, "log")

(***************************************************************************)
(* handle_update_transform_real.  The Work is a record of what its methods *)
(* answer in this pass; repo holds what release_inputs_by_collection and   *)
(* poll_inputs_dependency_by_collection return.  next_poll_at is kept as   *)
(* the period and the factor added to utcnow().                            *)
(***************************************************************************)
NoUpdates(maps) ==
    [maps |-> maps, updated_contents |-> <<>>,
     updated_input_contents_full |-> <<>>, updated_output_contents_full |-> <<>>]

FileMessages(transform, lists) ==
    LET nonempty == SelectSeq(lists, LAMBDA l : l.files # <<>>)
    IN  [i \in DOMAIN nonempty |->
            generate_message(transform, NoWork, NoCollection, nonempty[i].files,
                             "file", nonempty[i].relation_type)]

Call(op, final, arg) == [op |-> op, final |-> final, arg |-> arg]

ContentSteps_AlwaysPoll(work, repo) ==
    LET release == work.should_release_inputs
        trigger == release /\ work.use_dependency_to_release_jobs
    IN  [release |-> release, trigger |-> trigger, poll |-> trigger,
         final |-> work.is_terminated /\ work.use_dependency_to_release_jobs]

\* which steps of the content engine a pass takes: get_updated_contents
\* (line 891), trigger_release_inputs (894-897), poll_inputs_dependency
\* (898-899) and the final trigger_release_inputs (923-929)
ContentSteps(work, repo) ==
    LET release == work.should_release_inputs
        trigger == release /\ work.use_dependency_to_release_jobs
    IN  [release |-> release, trigger |-> trigger,
         poll |-> trigger /\ repo.release = <<>>,
         final |-> work.is_terminated /\ work.use_dependency_to_release_jobs]

handle_update_transform_real(transform, work, registered_input_output_maps, repo) ==
    LET is_operation == transform.status \in OperationStatuses
        tps == t_processing_status(transform.status)
        \* lines 835-864: the processing, created when the Work has none
        processing == IF work.processing = "None" THEN "new" ELSE work.processing
        nc == get_new_contents(work.new_input_output_maps)
        new_contents == nc.new_input_contents \o nc.new_output_contents
                            \o nc.new_log_contents \o nc.new_input_dependency_contents
        new_processing_model ==
            IF processing = "new"
            THEN [present |-> TRUE, status |-> IF tps # "None" THEN tps ELSE "New"]
            ELSE [present |-> FALSE, status |-> "None"]
        \* lines 888-900
        steps == ContentSteps(work, repo)
        release == steps.release
        upd == IF release THEN get_updated_contents(registered_input_output_maps)
               ELSE NoUpdates(registered_input_output_maps)
        trigger == steps.trigger
        released == IF trigger THEN repo.release ELSE <<>>
        poll == steps.poll
        to_release_input_contents == IF poll THEN repo.poll ELSE released
        \* lines 902-914
        file_msgs == FileMessages(transform,
            <<[files |-> nc.new_input_contents, relation_type |-> "input"],
              [files |-> nc.new_output_contents, relation_type |-> "output"],
              [files |-> upd.updated_input_contents_full, relation_type |-> "input"],
              [files |-> upd.updated_output_contents_full, relation_type |-> "output"]>>)
        \* lines 919-929
        syn == syn_collection_status(work.input_collections, work.output_collections,
                                     work.log_collections, upd.maps)
        final == steps.final
        to_release_all == to_release_input_contents
                              \o (IF final THEN repo.final_release ELSE <<>>)
        \* lines 931-1058
        status == next_status(transform.status, work)
        to_resume_transform == transform.status = "ToResume"
        terminal == ~is_operation /\ status # "Transforming"
        reactivated_contents ==
            IF to_resume_transform THEN reactive_contents(upd.maps) ELSE <<>>
        coll_status(colls) ==
            IF to_resume_transform THEN SetCollectionStatus(colls, "Open")
            ELSE IF terminal
                 THEN SetCollectionStatus(colls, TerminalCollectionStatus(status))
                 ELSE colls
        input_collections == coll_status(syn.input_collections)
        output_collections == coll_status(syn.output_collections)
        log_collections == coll_status(syn.log_collections)
        moved == [transform EXCEPT !.status = status]
        msgs == file_msgs \o
                (IF terminal
                 THEN TerminalMessages(moved, [present |-> TRUE], input_collections,
                                       output_collections, log_collections)
                 ELSE <<>>)
    IN  [transform_parameters |->
            [status |-> status,
             locking |-> "Idle",
             next_poll_at |->
                [period |-> IF is_operation THEN "poll_operation_time_period"
                            ELSE "poll_time_period",
                 times |-> IF to_resume_transform THEN 5 ELSE 1],
             \* line 1069
             retries |-> 0],
         flags |-> IF is_operation THEN {OperationTransition(transform.status).flag}
                   ELSE {},
         update_input_collections |-> input_collections,
         update_output_collections |-> output_collections,
         update_log_collections |-> log_collections,
         new_contents |-> new_contents,
         \* the local updated_contents of lines 888-893
         updated_contents |-> upd.updated_contents,
         update_contents |->
            upd.updated_contents \o to_release_all \o reactivated_contents,
         messages |-> msgs,
         update_messages |-> <<>>,
         new_processing |-> new_processing_model,
         has_new_updates |->
            new_contents # <<>> \/ upd.updated_contents # <<>> \/ to_release_all # <<>>,
         all_updates_flushed |-> syn.all_updates_flushed,
         output_statistics |-> syn.output_statistics,
         calls |->
            (IF release THEN <<Call("get_updated_contents", FALSE, <<>>)>> ELSE <<>>)
            \o (IF trigger
                THEN <<Call("release_inputs_by_collection", FALSE,
                            to_release_inputs(upd.maps))>>
                ELSE <<>>)
            \o (IF poll
                THEN <<Call("poll_inputs_dependency_by_collection", FALSE,
                            unfinished_inputs(upd.maps))>>
                ELSE <<>>)
            \o <<Call("syn_collection_status", FALSE, <<>>),
                 Call("syn_work_status", FALSE, <<>>)>>
            \o (IF final
                THEN <<Call("release_inputs_by_collection", TRUE,
                            to_release_inputs(upd.maps))>>
                ELSE <<>>)]

(***************************************************************************)
(* Registered maps for the content engine.  A map is described by the      *)
(* <<status, substatus>> pairs of its contents; content ids are unique.    *)
(***************************************************************************)
MaxInputs == 1
MaxDeps == 2
MaxOutputs == 1

InputShapes == {<<"New", "New">>, <<"Available", "Available">>, <<"Missing", "New">>,
                <<"FakeAvailable", "FakeAvailable">>, <<"Missing", "Missing">>}
DepShapes == {<<s, s>> : s \in {"New", "Available", "FakeAvailable",
                                "FinalFailed", "Missing"}}
OutputShapes == {<<"New", "New">>, <<"New", "Available">>, <<"Missing", "New">>,
                 <<"Available", "Available">>, <<"Missing", "Missing">>}

MapShapes ==
    [inputs : SeqsUpTo(InputShapes, MaxInputs),
     inputs_dependency : SeqsUpTo(DepShapes, MaxDeps),
     outputs : SeqsUpTo(OutputShapes, MaxOutputs),
     logs : {<<>>}]

\* two fixed companion maps, so that a map is also updated next to another
CompanionShapes ==
    {[inputs |-> << <<"New", "New">> >>,
      inputs_dependency |-> << <<"Available", "Available">> >>,
      outputs |-> << <<"New", "Available">> >>, logs |-> <<>>],
     [inputs |-> << <<"New", "New">> >>,
      inputs_dependency |-> << <<"FinalFailed", "FinalFailed">> >>,
      outputs |-> << <<"New", "New">> >>, logs |-> <<>>]}

RegisteredShapes(m) ==
    {<<m>>} \cup {<<m, c>> : c \in CompanionShapes}
        \cup {<<c, m>> : c \in CompanionShapes}

\* the collections the contents of each role belong to
CollIdOf == [inputs |-> 1, outputs |-> 2, logs |-> 3, inputs_dependency |-> 4]

MkContents(map_id, role, coll_id, shapes) ==
    [k \in DOMAIN shapes |->
        [content_id |-> 100 * map_id + 10 * role + k,
         name |-> 100 * map_id + 10 * role + k, coll_id |-> coll_id,
         status |-> shapes[k][1], substatus |-> shapes[k][2], bytes |-> k]]

MkMap(map_id, shape) ==
    [inputs |-> MkContents(map_id, 1, CollIdOf.inputs, shape.inputs),
     inputs_dependency |-> MkContents(map_id, 2, CollIdOf.inputs_dependency, shape.inputs_dependency),
     outputs |-> MkContents(map_id, 3, CollIdOf.outputs, shape.outputs),
     logs |-> MkContents(map_id, 4, CollIdOf.logs, shape.logs)]

MkMaps(shapes) == [i \in DOMAIN shapes |-> MkMap(i, shapes[i])]

NoUpdRes ==
    [done |-> FALSE, maps |-> <<>>, updated_contents |-> <<>>,
     updated_input_contents_full |-> <<>>, updated_output_contents_full |-> <<>>]

(***************************************************************************)
(* SpecContents: get_updated_contents applied once to registered maps.     *)
(***************************************************************************)
ContentsIdle == regmaps = <<>> /\ updres = NoUpdRes

PassIdle ==
    passIn = [given |-> FALSE] /\ passOut = [done |-> FALSE]
        /\ passAgain = [done |-> FALSE]

ContentsInit == ContentsIdle /\ PassIdle /\ AgentIdle /\ HandlerIdle

GetUpdatedContents ==
    /\ ~updres.done
    /\ \E m \in MapShapes : \E shapes \in RegisteredShapes(m) :
        LET r == get_updated_contents(MkMaps(shapes))
        IN  /\ regmaps' = MkMaps(shapes)
            /\ updres' = [done |-> TRUE, maps |-> r.maps,
                          updated_contents |-> r.updated_contents,
                          updated_input_contents_full |-> r.updated_input_contents_full,
                          updated_output_contents_full |-> r.updated_output_contents_full]
    /\ UNCHANGED <<pvars, avars, hvars>>

Occurrences(s, content_id) ==
    Cardinality({i \in DOMAIN s : s[i].content_id = content_id})

\* C9: after get_updated_contents, in every map whose InputDependency contents
\* all have status Available or FakeAvailable (also a map without dependencies)
\* every Input has status = substatus = Available, and exactly the Inputs whose
\* status was not Available before have an update record (one each).
C9_AllAvailableReleasesInputs ==
    updres.done =>
        \A i \in DOMAIN regmaps :
            (\A d \in Range(regmaps[i].inputs_dependency) :
                    d.status \in {"Available", "FakeAvailable"})
            => /\ DOMAIN updres.maps[i].inputs = DOMAIN regmaps[i].inputs
               /\ \A c \in Range(updres.maps[i].inputs) :
                      c.status = "Available" /\ c.substatus = "Available"
               /\ \A c \in Range(regmaps[i].inputs) :
                      Occurrences(updres.updated_contents, c.content_id)
                          = IF c.status # "Available" THEN 1 ELSE 0

\* a map with a FakeAvailable dependency next to an Available one released an
\* Input that was New
C9_Witness ==
    /\ updres.done
    /\ \E i \in DOMAIN regmaps :
        /\ \E d \in Range(regmaps[i].inputs_dependency) : d.status = "FakeAvailable"
        /\ \A d \in Range(regmaps[i].inputs_dependency) :
               d.status \in {"Available", "FakeAvailable"}
        /\ \E d \in Range(regmaps[i].inputs_dependency) : d.status = "Available"
        /\ \E c \in Range(regmaps[i].inputs) :
               /\ c.status = "New"
               /\ Occurrences(updres.updated_contents, c.content_id) = 1
        /\ \A c \in Range(updres.maps[i].inputs) : c.status = "Available"

\* the InputDependency contents of map i are all terminated (Available,
\* FakeAvailable, FinalFailed, Missing) but not all available
TerminatedNotAvailable(i) ==
    /\ \A d \in Range(regmaps[i].inputs_dependency) :
           d.status \in {"Available", "FakeAvailable", "FinalFailed", "Missing"}
    /\ \E d \in Range(regmaps[i].inputs_dependency) :
           d.status \notin {"Available", "FakeAvailable"}

\* every Input and Output of map i is Missing/Missing after the call
AllMissing(i) ==
    /\ DOMAIN updres.maps[i].inputs = DOMAIN regmaps[i].inputs
    /\ DOMAIN updres.maps[i].outputs = DOMAIN regmaps[i].outputs
    /\ \A c \in Range(updres.maps[i].inputs) \cup Range(updres.maps[i].outputs) :
           c.status = "Missing" /\ c.substatus = "Missing"

\* content c is once in the full list and once in the update records, with
\* status Missing
ListedMissing(c, full) ==
    /\ Occurrences(full, c.content_id) = 1
    /\ Occurrences(updres.updated_contents, c.content_id) = 1
    /\ \A u \in Range(full) : u.content_id = c.content_id => u.status = "Missing"

\* C10 as stated: after get_updated_contents, in every map whose
\* InputDependency contents are all terminated but not all available, every
\* Input and Output has status = substatus = Missing, and every Input and
\* Output that was changed (its status or its substatus was not Missing
\* before) is in the updated input, resp. output, list.
C10_AllChangedAreListed ==
    updres.done =>
        \A i \in DOMAIN regmaps :
            TerminatedNotAvailable(i)
            => /\ AllMissing(i)
               /\ \A c \in Range(regmaps[i].inputs) :
                      c.status # "Missing" \/ c.substatus # "Missing" =>
                          ListedMissing(c, updres.updated_input_contents_full)
               /\ \A c \in Range(regmaps[i].outputs) :
                      c.status # "Missing" \/ c.substatus # "Missing" =>
                          ListedMissing(c, updres.updated_output_contents_full)

\* C10 amended: as above, but the updated lists hold exactly the Inputs and
\* Outputs whose status changed: a content whose status was Missing already
\* has only its substatus set and is in no list.
C10_AllTerminatedMarksMissing ==
    updres.done =>
        \A i \in DOMAIN regmaps :
            TerminatedNotAvailable(i)
            => /\ AllMissing(i)
               /\ \A c \in Range(regmaps[i].inputs) :
                      IF c.status # "Missing"
                      THEN ListedMissing(c, updres.updated_input_contents_full)
                      ELSE /\ Occurrences(updres.updated_input_contents_full, c.content_id) = 0
                           /\ Occurrences(updres.updated_contents, c.content_id) = 0
               /\ \A c \in Range(regmaps[i].outputs) :
                      IF c.status # "Missing"
                      THEN ListedMissing(c, updres.updated_output_contents_full)
                      ELSE /\ Occurrences(updres.updated_output_contents_full, c.content_id) = 0
                           /\ Occurrences(updres.updated_contents, c.content_id) = 0

\* a map with a Missing and an Available dependency moved an Available Input
\* and an unflushed Output to Missing
C10_Witness ==
    /\ updres.done
    /\ \E i \in DOMAIN regmaps :
        /\ \E d \in Range(regmaps[i].inputs_dependency) : d.status = "Missing"
        /\ \E d \in Range(regmaps[i].inputs_dependency) : d.status = "Available"
        /\ \A d \in Range(regmaps[i].inputs_dependency) :
               d.status \in {"Available", "Missing"}
        /\ \E c \in Range(regmaps[i].inputs) : c.status = "Available"
        /\ \E c \in Range(regmaps[i].outputs) :
               /\ c.status = "New" /\ c.substatus = "Available"
               /\ Occurrences(updres.updated_output_contents_full, c.content_id) = 1
        /\ \A c \in Range(updres.maps[i].inputs) \cup Range(updres.maps[i].outputs) :
               c.status = "Missing"

ContentsNext == GetUpdatedContents

SpecContents == ContentsInit /\ [][ContentsNext]_vars

(***************************************************************************)
(* SpecPass: handle_update_transform_real applied once.  The inputs are    *)
(* every running status, every answer of the six terminal predicates and   *)
(* of is_terminated, should_release_inputs, use_dependency_to_release_jobs,*)
(* combined with a few collections, processings, maps and repository       *)
(* answers.                                                                *)
(***************************************************************************)
Collection(coll_id) ==
    [present |-> TRUE, coll_id |-> coll_id, status |-> "Open",
     collection |-> [total_files |-> 0, processed_files |-> 0,
                     processing_files |-> 0, bytes |-> 0]]

ClosedCollection(coll_id) == [Collection(coll_id) EXCEPT !.status = "Closed"]

CollectionChoices ==
    {[input_collections |-> <<Collection(CollIdOf.inputs)>>,
      output_collections |-> <<Collection(CollIdOf.outputs)>>,
      log_collections |-> <<Collection(CollIdOf.logs)>>],
     [input_collections |-> <<Collection(CollIdOf.inputs), ClosedCollection(5)>>,
      output_collections |-> <<ClosedCollection(CollIdOf.outputs)>>,
      log_collections |-> <<>>]}

Absent == [key |-> FALSE, null |-> FALSE, v |-> 0]
Null == [key |-> TRUE, null |-> TRUE, v |-> 0]
Given(v) == [key |-> TRUE, null |-> FALSE, v |-> v]

WorkContent(name, coll_id, min_id, max_id, status, substatus) ==
    [name |-> name, coll_id |-> coll_id, min_id |-> min_id, max_id |-> max_id,
     status |-> status, substatus |-> substatus, bytes |-> 1]

\* what work.get_new_input_output_maps returns: nothing, or one new map
NewMapChoice ==
    <<[inputs |-> <<WorkContent(901, CollIdOf.inputs, Absent, Null, "absent", "None")>>,
       inputs_dependency |->
           <<WorkContent(902, CollIdOf.inputs_dependency, Given(0), Given(7),
                         "Available", "Available")>>,
       outputs |-> <<WorkContent(903, CollIdOf.outputs, Given(3), Absent,
                                 "Available", "Available")>>,
       logs |-> <<WorkContent(904, CollIdOf.logs, Null, Given(4), "absent", "absent")>>]>>

\* registered maps together with the new maps of the Work
PassMapChoices ==
    {[registered |-> <<>>, new |-> NewMapChoice],
     [registered |->
         MkMaps(<<[inputs |-> << <<"New", "New">> >>,
                   inputs_dependency |-> << <<"Available", "Available">>,
                                            <<"FakeAvailable", "FakeAvailable">> >>,
                   outputs |-> << <<"New", "Available">> >>,
                   logs |-> << <<"New", "New">> >>],
                  [inputs |-> << <<"New", "New">> >>,
                   inputs_dependency |-> <<>>,
                   outputs |-> <<>>,
                   logs |-> <<>>]>>),
      new |-> <<>>],
     [registered |->
         MkMaps(<<[inputs |-> << <<"Available", "Available">> >>,
                   inputs_dependency |-> <<>>,
                   outputs |-> << <<"Available", "Available">> >>,
                   logs |-> <<>>],
                  [inputs |-> << <<"New", "New">> >>,
                   inputs_dependency |-> << <<"FinalFailed", "FinalFailed">> >>,
                   outputs |-> << <<"New", "New">> >>,
                   logs |-> << <<"Available", "Available">> >>],
                  [inputs |-> << <<"Available", "Available">> >>,
                   inputs_dependency |-> <<>>,
                   outputs |-> << <<"Available", "Available">>, <<"New", "New">> >>,
                   logs |-> <<>>]>>),
      new |-> <<>>],
     [registered |->
         MkMaps(<<[inputs |-> << <<"New", "New">> >>,
                   inputs_dependency |-> << <<"New", "New">>, <<"New", "Available">>,
                                            <<"Missing", "New">> >>,
                   outputs |-> << <<"New", "Missing">>, <<"New", "New">>,
                                  <<"FinalFailed", "FinalFailed">> >>,
                   logs |-> <<>>]>>),
      new |-> <<>>]}

Released(content_id) ==
    [content_id |-> content_id, status |-> "Available", substatus |-> "Available"]

RepoChoices ==
    {[release |-> <<>>, poll |-> <<>>, final_release |-> <<>>],
     [release |-> <<Released(801)>>, poll |-> <<>>, final_release |-> <<Released(803)>>],
     [release |-> <<>>, poll |-> <<Released(802)>>, final_release |-> <<>>]}

ProcessingChoices == {"None", "new", "persisted"}

PassTransforms ==
    [transform_id : {1}, transform_type : {"Processing"},
     status : RunningStatuses, retries : {2}]

PassWorks ==
    [is_finished : BOOLEAN, is_subfinished : BOOLEAN, is_failed : BOOLEAN,
     is_expired : BOOLEAN, is_cancelled : BOOLEAN, is_suspended : BOOLEAN,
     is_terminated : BOOLEAN, should_release_inputs : BOOLEAN,
     use_dependency_to_release_jobs : BOOLEAN]

MkWork(answers, colls, processing, new_maps) ==
    [is_finished |-> answers.is_finished, is_subfinished |-> answers.is_subfinished,
     is_failed |-> answers.is_failed, is_expired |-> answers.is_expired,
     is_cancelled |-> answers.is_cancelled, is_suspended |-> answers.is_suspended,
     is_terminated |-> answers.is_terminated,
     should_release_inputs |-> answers.should_release_inputs,
     use_dependency_to_release_jobs |-> answers.use_dependency_to_release_jobs,
     input_collections |-> colls.input_collections,
     output_collections |-> colls.output_collections,
     log_collections |-> colls.log_collections,
     processing |-> processing,
     new_input_output_maps |-> new_maps]

PassInit == PassIdle /\ ContentsIdle /\ AgentIdle /\ HandlerIdle

UpdatePass ==
    /\ ~passOut.done
    /\ \E transform \in PassTransforms, answers \in PassWorks,
          colls \in CollectionChoices, processing \in ProcessingChoices,
          maps \in PassMapChoices, repo \in RepoChoices :
        LET work == MkWork(answers, colls, processing, maps.new)
        IN  /\ passIn' = [given |-> TRUE, transform |-> transform, work |-> work,
                          maps |-> maps.registered, repo |-> repo]
            /\ passOut' = [done |-> TRUE,
                           ret |-> handle_update_transform_real(
                                       transform, work, maps.registered, repo)]
    /\ UNCHANGED <<passAgain, cvars, avars, hvars>>

(***************************************************************************)
(* The store after the bundle of a pass was written: update_contents       *)
(* applied in order to the contents they name (a record without substatus  *)
(* leaves the substatus), the new contents registered under their map and  *)
(* relation type with the name as id.                                      *)
(***************************************************************************)
ApplyRecord(content, r) ==
    IF r.content_id # content.content_id THEN content
    ELSE [content EXCEPT !.status = r.status,
                         !.substatus = IF r.substatus = "absent" THEN @
                                       ELSE r.substatus]

RECURSIVE ApplyRecords(_, _)
ApplyRecords(content, update_contents) ==
    IF update_contents = <<>> THEN content
    ELSE ApplyRecords(ApplyRecord(content, Head(update_contents)),
                      Tail(update_contents))

StoredContents(new_contents, map_id, relation_type) ==
    LET sel == SelectSeq(new_contents, LAMBDA c :
                   c.map_id = map_id /\ c.content_relation_type = relation_type)
    IN  [i \in DOMAIN sel |->
            [content_id |-> sel[i].name, name |-> sel[i].name,
             coll_id |-> sel[i].coll_id, status |-> sel[i].status,
             substatus |-> sel[i].substatus, bytes |-> sel[i].bytes]]

get_transform_input_output_maps(maps, ret) ==
    LET stored(cs) == [k \in DOMAIN cs |-> ApplyRecords(cs[k], ret.update_contents)]
        new_ids == {ret.new_contents[i].map_id : i \in DOMAIN ret.new_contents}
    IN  [i \in DOMAIN maps |->
            [inputs |-> stored(maps[i].inputs),
             inputs_dependency |-> stored(maps[i].inputs_dependency),
             outputs |-> stored(maps[i].outputs),
             logs |-> stored(maps[i].logs)]]
        \o [k \in 1..Cardinality(new_ids) |->
               [inputs |-> StoredContents(ret.new_contents, k, "Input"),
                inputs_dependency |->
                    StoredContents(ret.new_contents, k, "InputDependency"),
                outputs |-> StoredContents(ret.new_contents, k, "Output"),
                logs |-> StoredContents(ret.new_contents, k, "Log")]]

\* the next update pass on the same transform: the row, the collections and
\* the contents are as the first pass's bundle left them, the Work gives the
\* same answers, has its processing and no map beyond those now registered
UpdatePassAgain ==
    /\ passOut.done
    /\ ~passAgain.done
    /\ passOut.ret.transform_parameters.status \in RunningStatuses
    /\ LET ret == passOut.ret
           transform == [passIn.transform EXCEPT
                            !.status = ret.transform_parameters.status,
                            !.retries = ret.transform_parameters.retries]
           work == [passIn.work EXCEPT
                       !.input_collections = ret.update_input_collections,
                       !.output_collections = ret.update_output_collections,
                       !.log_collections = ret.update_log_collections,
                       !.processing = "persisted",
                       !.new_input_output_maps = <<>>]
           maps == get_transform_input_output_maps(passIn.maps, ret)
       IN  passAgain' = [done |-> TRUE, transform |-> transform, work |-> work,
                         maps |-> maps,
                         ret |-> handle_update_transform_real(
                                     transform, work, maps, passIn.repo)]
    /\ UNCHANGED <<passIn, passOut, cvars, avars, hvars>>

PassNext == UpdatePass \/ UpdatePassAgain

SpecPass == PassInit /\ [][PassNext]_vars

CountMsgs(msgs, kind) ==
    Cardinality({i \in DOMAIN msgs : msgs[i].msg_type[2] = kind})

CollMsgsFor(msgs, relation_type, coll_id) ==
    Cardinality({i \in DOMAIN msgs :
        /\ msgs[i].msg_type[2] = "Collection"
        /\ msgs[i].relation_type = relation_type
        /\ \E k \in DOMAIN msgs[i].collections :
               msgs[i].collections[k].coll_id = coll_id})

\* C6: an update pass on a transform in a To* status returns the matching
\* progressive status and sets the matching Work flag, whatever the Work's
\* terminal predicates answer.
C6_OperationTransitions ==
    passOut.done =>
        LET st == passIn.transform.status
            p == passOut.ret.transform_parameters
            f == passOut.ret.flags
        IN  /\ st = "ToCancel" => p.status = "Cancelling" /\ "tocancel" \in f
            /\ st = "ToSuspend" => p.status = "Suspending" /\ "tosuspend" \in f
            /\ st = "ToResume" => p.status = "Resuming" /\ "toresume" \in f
            /\ st = "ToExpire" => p.status = "Expiring" /\ "toexpire" \in f
            /\ st = "ToFinish" => p.status = "Transforming" /\ "tofinish" \in f
            /\ st = "ToForceFinish" =>
                   p.status = "Transforming" /\ "toforcefinish" \in f

\* a ToCancel pass of a Work that answers is_finished ended Cancelling
C6_Witness ==
    /\ passOut.done
    /\ passIn.transform.status = "ToCancel"
    /\ passIn.work.is_finished
    /\ passOut.ret.transform_parameters.status = "Cancelling"
    /\ "tocancel" \in passOut.ret.flags

AllCollections(ret) ==
    Range(ret.update_input_collections) \cup Range(ret.update_output_collections)
        \cup Range(ret.update_log_collections)

\* C7: an update pass on a transform not in a To* status takes the status of
\* the first true predicate in the order is_finished, is_subfinished,
\* is_failed, is_expired, is_cancelled, is_suspended, and sets every input,
\* output and log collection to the matching collection status.
C7_FirstTruePredicateWins ==
    (passOut.done /\ passIn.transform.status \notin
        {"ToCancel", "ToSuspend", "ToResume", "ToExpire", "ToFinish", "ToForceFinish"}) =>
        LET w == passIn.work
            ret == passOut.ret
            Is(tst, cst) == /\ ret.transform_parameters.status = tst
                            /\ \A c \in AllCollections(ret) : c.status = cst
        IN  /\ w.is_finished => Is("Finished", "Closed")
            /\ (~w.is_finished /\ w.is_subfinished) => Is("SubFinished", "SubClosed")
            /\ (~w.is_finished /\ ~w.is_subfinished /\ w.is_failed) =>
                   Is("Failed", "Failed")
            /\ (~w.is_finished /\ ~w.is_subfinished /\ ~w.is_failed /\ w.is_expired) =>
                   Is("Expired", "SubClosed")
            /\ (~w.is_finished /\ ~w.is_subfinished /\ ~w.is_failed /\ ~w.is_expired
                    /\ w.is_cancelled) => Is("Cancelled", "Cancelled")
            /\ (~w.is_finished /\ ~w.is_subfinished /\ ~w.is_failed /\ ~w.is_expired
                    /\ ~w.is_cancelled /\ w.is_suspended) =>
                   Is("Suspended", "Suspended")

\* a Cancelling transform whose Work answers is_subfinished, is_failed and
\* is_suspended at once ended SubFinished with three SubClosed collections
C7_Witness ==
    /\ passOut.done
    /\ passIn.transform.status = "Cancelling"
    /\ ~passIn.work.is_finished /\ passIn.work.is_subfinished
    /\ passIn.work.is_failed /\ passIn.work.is_suspended
    /\ passOut.ret.transform_parameters.status = "SubFinished"
    /\ Cardinality(AllCollections(passOut.ret)) = 3
    /\ \A c \in AllCollections(passOut.ret) : c.status = "SubClosed"

\* C8: a pass that ends in a terminal status emits exactly one Work message
\* and exactly one Collection message per input, output and log collection;
\* a pass that ends in no terminal status emits neither.
C8_TerminalMessages ==
    passOut.done =>
        LET ret == passOut.ret
            msgs == ret.messages
            w == passIn.work
            n == Len(w.input_collections) + Len(w.output_collections)
                     + Len(w.log_collections)
        IN  IF ret.transform_parameters.status \in
                   {"Finished", "SubFinished", "Failed", "Expired", "Cancelled", "Suspended"}
            THEN /\ CountMsgs(msgs, "Work") = 1
                 /\ CountMsgs(msgs, "Collection") = n
                 /\ \A c \in Range(w.input_collections) :
                        CollMsgsFor(msgs, "input", c.coll_id) = 1
                 /\ \A c \in Range(w.output_collections) :
                        CollMsgsFor(msgs, "output", c.coll_id) = 1
                 /\ \A c \in Range(w.log_collections) :
                        CollMsgsFor(msgs, "log", c.coll_id) = 1
            ELSE CountMsgs(msgs, "Work") = 0 /\ CountMsgs(msgs, "Collection") = 0

\* an Expired pass with one input, one output and one log collection emitted
\* a Work message and three Collection messages next to its File messages
C8_Witness ==
    /\ passOut.done
    /\ passOut.ret.transform_parameters.status = "Expired"
    /\ Len(passIn.work.log_collections) = 1
    /\ CountMsgs(passOut.ret.messages, "Work") = 1
    /\ CountMsgs(passOut.ret.messages, "Collection") = 3
    /\ CountMsgs(passOut.ret.messages, "File") > 0


\* C11: an update pass on a transform in status ToResume returns status
\* Resuming and retries 0, returns every input, output and log collection
\* with status Open, and its update_contents hold a reset record
\* (status = substatus = New) for every Input and Output of each map that has
\* a non-Available output and no reset record for any content of a map whose
\* outputs are all Available.  Output statuses are those the pass holds when
\* it resets, after its own content pass.
C11_ResumeResets ==
    passOut.done /\ passIn.transform.status = "ToResume" =>
        LET ret == passOut.ret
            work == passIn.work
            seen == IF work.should_release_inputs
                    THEN get_updated_contents(passIn.maps).maps ELSE passIn.maps
            resets == {r \in Range(ret.update_contents) :
                          r.status = "New" /\ r.substatus = "New"}
        IN  /\ ret.transform_parameters.status = "Resuming"
            /\ ret.transform_parameters.retries = 0
            /\ Len(ret.update_input_collections) = Len(work.input_collections)
            /\ Len(ret.update_output_collections) = Len(work.output_collections)
            /\ Len(ret.update_log_collections) = Len(work.log_collections)
            /\ \A c \in AllCollections(ret) : c.status = "Open"
            /\ \A i \in DOMAIN seen :
                   LET m == seen[i]
                       io == Range(m.inputs) \cup Range(m.outputs)
                       all == io \cup Range(m.inputs_dependency) \cup Range(m.logs)
                   IN  IF \E o \in Range(m.outputs) : o.status # "Available"
                       THEN \A c \in io :
                               [content_id |-> c.content_id, status |-> "New",
                                substatus |-> "New"] \in resets
                       ELSE \A c \in all, r \in resets : r.content_id # c.content_id

\* a ToResume pass over three maps, the first with its only output Available,
\* the second with no output Available, the third with one of two: the first
\* got no reset record, the others were reset, and a Closed collection is Open
C11_Witness ==
    /\ passOut.done
    /\ passIn.transform.status = "ToResume"
    /\ ~passIn.work.should_release_inputs
    /\ Len(passIn.maps) = 3
    /\ \E c \in Range(passIn.work.output_collections) : c.status = "Closed"
    /\ \A c \in AllCollections(passOut.ret) : c.status = "Open"
    /\ LET ids == {r.content_id : r \in Range(passOut.ret.update_contents)}
       IN  /\ passIn.maps[1].inputs[1].content_id \notin ids
           /\ passIn.maps[1].outputs[1].content_id \notin ids
           /\ passIn.maps[2].outputs[1].content_id \in ids
           /\ passIn.maps[3].inputs[1].content_id \in ids
           /\ passIn.maps[3].outputs[1].content_id \in ids
           /\ passIn.maps[3].outputs[2].content_id \in ids

\* C12: the next update pass on a transform whose row, contents and Work
\* answers are as the first pass left them mutates no content: its
\* updated_contents and its new_contents are empty.
C12_SecondRunMutatesNothing ==
    passAgain.done =>
        /\ passAgain.ret.updated_contents = <<>>
        /\ passAgain.ret.new_contents = <<>>


\* the contents of one role that the registered maps hold for a collection
ContentsOf(maps, role, coll_id) ==
    SelectSeq(AllOf(maps, role), LAMBDA c : c.coll_id = coll_id)

\* the counters of every collection of a list that has contents of its role:
\* total_files is the number of those contents and is the sum of the other two
CountersAddUp(colls, maps, role) ==
    \A i \in DOMAIN colls :
        ContentsOf(maps, role, colls[i].coll_id) # <<>> =>
            /\ colls[i].collection.total_files
                   = Len(ContentsOf(maps, role, colls[i].coll_id))
            /\ colls[i].collection.total_files
                   = colls[i].collection.processed_files
                         + colls[i].collection.processing_files
            /\ colls[i].collection.processed_files >= 0
            /\ colls[i].collection.processing_files >= 0

\* C22: after the collection sync of an update pass every input, output and
\* log collection that has contents in the registered maps has
\* total_files = processed_files + processing_files, total_files being the
\* number of its contents in those maps.
C22_CountersAddUp ==
    passOut.done /\ passIn.transform.status \in RunningStatuses =>
        /\ CountersAddUp(passOut.ret.update_input_collections, passIn.maps, "inputs")
        /\ CountersAddUp(passOut.ret.update_output_collections, passIn.maps, "outputs")
        /\ CountersAddUp(passOut.ret.update_log_collections, passIn.maps, "logs")

\* a sync over three maps that leaves an output collection with processed and
\* with processing files, and an input collection with two of three processed
C22_Witness ==
    /\ passOut.done /\ passIn.transform.status \in RunningStatuses
    /\ Len(passIn.maps) = 3
    /\ \E i \in DOMAIN passOut.ret.update_output_collections :
           /\ passOut.ret.update_output_collections[i].collection.processed_files > 0
           /\ passOut.ret.update_output_collections[i].collection.processing_files > 0
    /\ \E i \in DOMAIN passOut.ret.update_input_collections :
           /\ passOut.ret.update_input_collections[i].collection.total_files = 3
           /\ passOut.ret.update_input_collections[i].collection.processed_files = 2


\* the positions of a step among the calls of a pass
Steps(calls, op, final) ==
    {i \in DOMAIN calls : calls[i].op = op /\ calls[i].final = final}

\* every call of the first step comes before every call of the second
Before(calls, first, second) == \A i \in first, j \in second : i < j

\* C28: within one update pass get_updated_contents runs only when
\* work.should_release_inputs is true; trigger_release_inputs with final=false
\* only if moreover use_dependency_to_release_jobs is true;
\* poll_inputs_dependency only when that release returned nothing;
\* trigger_release_inputs with final=true only when work.is_terminated and
\* use_dependency_to_release_jobs are true, after the Work status sync, with
\* its result appended to the released list.  The steps run in this order.
C28_ContentStepsGatedAndOrdered ==
    passOut.done /\ passIn.transform.status \in RunningStatuses =>
        LET work == passIn.work
            ret == passOut.ret
            calls == ret.calls
            updated == Steps(calls, "get_updated_contents", FALSE)
            release == Steps(calls, "release_inputs_by_collection", FALSE)
            poll == Steps(calls, "poll_inputs_dependency_by_collection", FALSE)
            syn_coll == Steps(calls, "syn_collection_status", FALSE)
            syn_work == Steps(calls, "syn_work_status", FALSE)
            final == Steps(calls, "release_inputs_by_collection", TRUE)
            first_released == IF poll # {} THEN passIn.repo.poll
                              ELSE IF release # {} THEN passIn.repo.release
                              ELSE <<>>
            released_list == first_released
                                 \o (IF final # {} THEN passIn.repo.final_release
                                     ELSE <<>>)
        IN  /\ \A s \in {updated, release, poll, final} : Cardinality(s) <= 1
            /\ Cardinality(syn_coll) = 1 /\ Cardinality(syn_work) = 1
            /\ updated # {} <=> work.should_release_inputs
            /\ release # {} <=>
                   work.should_release_inputs /\ work.use_dependency_to_release_jobs
            /\ poll # {} <=> release # {} /\ passIn.repo.release = <<>>
            /\ final # {} <=> work.is_terminated /\ work.use_dependency_to_release_jobs
            /\ Before(calls, updated, release) /\ Before(calls, release, poll)
            /\ Before(calls, updated \cup release \cup poll, syn_coll)
            /\ Before(calls, syn_coll, syn_work) /\ Before(calls, syn_work, final)
            /\ Len(ret.update_contents)
                   >= Len(ret.updated_contents) + Len(released_list)
            /\ SubSeq(ret.update_contents, 1,
                      Len(ret.updated_contents) + Len(released_list))
                   = ret.updated_contents \o released_list

\* a pass that takes every step but the poll: the first release returns a
\* record, the Work is terminated and the final release returns another
C28_Witness ==
    /\ passOut.done /\ passIn.transform.status \in RunningStatuses
    /\ Len(passOut.ret.calls) = 5
    /\ passIn.repo.release # <<>> /\ passIn.repo.final_release # <<>>
    /\ passOut.ret.calls[5] = Call("release_inputs_by_collection", TRUE,
                                   passOut.ret.calls[5].arg)
    /\ passOut.ret.updated_contents # <<>>


\* the statuses that release an input or end the wait for a dependency
ReleasingStatuses == {"Available", "FakeAvailable", "FinalFailed", "Missing"}

\* the content ids handed over under each coll_id
HandedOver(arg) == [c \in DOMAIN arg |-> {arg[c][i].content_id : i \in DOMAIN arg[c]}]

\* a set of contents as content ids under their coll_id
Expected(all) ==
    [c \in {x.coll_id : x \in all} |-> {x.content_id : x \in {y \in all : y.coll_id = c}}]

\* the registered maps as a step of the pass finds them: get_updated_contents
\* has changed them in place when it ran
MapsAtCall(work, maps) ==
    IF work.should_release_inputs THEN get_updated_contents(maps).maps ELSE maps

\* C29: trigger_release_inputs hands to release_inputs_by_collection exactly
\* the Outputs of the registered maps whose status or substatus is Available,
\* FakeAvailable, FinalFailed or Missing, each under its own coll_id, and
\* poll_inputs_dependency hands over exactly the InputDependency contents whose
\* status and substatus are both none of these.
C29_ReleaseAndPollArguments ==
    passOut.done /\ passIn.transform.status \in RunningStatuses =>
        LET maps == MapsAtCall(passIn.work, passIn.maps)
            calls == passOut.ret.calls
            Releasing(x) == x.status \in ReleasingStatuses
                                \/ x.substatus \in ReleasingStatuses
            Unfinished(x) == x.status \notin ReleasingStatuses
                                 /\ x.substatus \notin ReleasingStatuses
        IN  \A i \in DOMAIN calls :
                /\ calls[i].op = "release_inputs_by_collection" =>
                       /\ HandedOver(calls[i].arg)
                              = Expected({x \in Range(AllOf(maps, "outputs")) :
                                             Releasing(x)})
                       /\ \A c \in DOMAIN calls[i].arg :
                              /\ calls[i].arg[c] # <<>>
                              /\ \A k \in DOMAIN calls[i].arg[c] :
                                     calls[i].arg[c][k].coll_id = c
                              /\ Len(calls[i].arg[c])
                                     = Cardinality(HandedOver(calls[i].arg)[c])
                /\ calls[i].op = "poll_inputs_dependency_by_collection" =>
                       /\ HandedOver(calls[i].arg)
                              = Expected({x \in Range(AllOf(maps, "inputs_dependency")) :
                                             Unfinished(x)})
                       /\ \A c \in DOMAIN calls[i].arg :
                              /\ \A k \in DOMAIN calls[i].arg[c] :
                                     calls[i].arg[c][k].coll_id = c
                              /\ Len(calls[i].arg[c])
                                     = Cardinality(HandedOver(calls[i].arg)[c])

\* a pass that releases and then polls: one output qualifies by its substatus
\* only and one not at all, one dependency is unfinished and two are not
C29_Witness ==
    /\ passOut.done /\ passIn.transform.status \in RunningStatuses
    /\ \E i, j \in DOMAIN passOut.ret.calls :
        /\ passOut.ret.calls[i].op = "release_inputs_by_collection"
        /\ ~passOut.ret.calls[i].final
        /\ \E c \in DOMAIN passOut.ret.calls[i].arg : Len(passOut.ret.calls[i].arg[c]) = 2
        /\ passOut.ret.calls[j].op = "poll_inputs_dependency_by_collection"
        /\ \E c \in DOMAIN passOut.ret.calls[j].arg : Len(passOut.ret.calls[j].arg[c]) = 1
    /\ Len(AllOf(passIn.maps, "outputs")) = 3
    /\ Len(AllOf(passIn.maps, "inputs_dependency")) = 3


\* the four lists an update pass reports, in the order of lines 903-914, as
\* get_new_contents and get_updated_contents return them
ReportedLists(work, maps) ==
    LET nc == get_new_contents(work.new_input_output_maps)
        upd == IF work.should_release_inputs THEN get_updated_contents(maps)
               ELSE NoUpdates(maps)
    IN  <<[files |-> nc.new_input_contents, relation_type |-> "input"],
          [files |-> nc.new_output_contents, relation_type |-> "output"],
          [files |-> upd.updated_input_contents_full, relation_type |-> "input"],
          [files |-> upd.updated_output_contents_full, relation_type |-> "output"]>>

\* the names of the log contents a pass registers or finds registered
LogNames(work, maps) ==
    {w.name : w \in Range(AllOf(work.new_input_output_maps, "logs"))}
        \cup {c.name : c \in Range(AllOf(maps, "logs"))}

\* C31: an update pass emits exactly one File message for each non-empty list
\* among new inputs, new outputs, updated inputs and updated outputs, with the
\* relation type of the list and num_contents equal to its length, and none
\* for an empty list; no log content is reported in an output File message.
C31_OneFileMessagePerList ==
    passOut.done /\ passIn.transform.status \in RunningStatuses =>
        LET lists == ReportedLists(passIn.work, passIn.maps)
            nonempty == SelectSeq(lists, LAMBDA l : l.files # <<>>)
            files == SelectSeq(passOut.ret.messages, LAMBDA m : m.msg_type[2] = "File")
        IN  /\ Len(files) = Len(nonempty)
            /\ \A i \in DOMAIN files :
                   /\ files[i].relation_type = nonempty[i].relation_type
                   /\ files[i].num_contents = Len(nonempty[i].files)
                   /\ Len(files[i].files) = Len(nonempty[i].files)
                   /\ \A k \in DOMAIN files[i].files :
                          files[i].files[k].name = nonempty[i].files[k].name
            /\ \A i \in DOMAIN files :
                   files[i].relation_type = "output" =>
                       \A k \in DOMAIN files[i].files :
                           files[i].files[k].name
                               \notin LogNames(passIn.work, passIn.maps)


\* the four counters of every collection of a list that has contents of its
\* role, the processed contents being those whose status is in the given set
FourCounters(colls, maps, role, processed) ==
    \A i \in DOMAIN colls :
        LET mine == ContentsOf(maps, role, colls[i].coll_id)
            done == SelectSeq(mine, LAMBDA c : c.status \in processed)
        IN  mine # <<>> =>
                /\ colls[i].collection.total_files = Len(mine)
                /\ colls[i].collection.processed_files = Len(done)
                /\ colls[i].collection.processing_files = Len(mine) - Len(done)
                /\ colls[i].collection.bytes = SumBytes(done)

\* C32: after the collection sync of an update pass every input, output and
\* log collection that has contents in the registered maps carries
\* total_files, processed_files, processing_files and bytes, bytes being the
\* sum of the bytes of its processed contents (Available, Mapped or
\* FakeAvailable for inputs; Available or FakeAvailable for outputs and logs).
C32_CollectionsCarryFourCounters ==
    passOut.done /\ passIn.transform.status \in RunningStatuses =>
        LET maps == MapsAtCall(passIn.work, passIn.maps)
            ret == passOut.ret
        IN  /\ FourCounters(ret.update_input_collections, maps, "inputs",
                            {"Available", "Mapped", "FakeAvailable"})
            /\ FourCounters(ret.update_output_collections, maps, "outputs",
                            {"Available", "FakeAvailable"})
            /\ FourCounters(ret.update_log_collections, maps, "logs",
                            {"Available", "FakeAvailable"})


\* the contents of a map, whatever their role
MapContents(m) ==
    Range(m.inputs) \cup Range(m.inputs_dependency) \cup Range(m.outputs)
        \cup Range(m.logs)

\* C33: reactive_contents produces, for each map that has at least one Output
\* whose status is not Available, one reset record (status = substatus = New)
\* for every Input and every Output of the map and for every InputDependency
\* whose status is not Available, and no other record; for a map whose
\* Outputs are all Available, or that has no Outputs, it produces no record.
\* A ToResume pass appends these records to its update_contents.
C33_ReactiveContentsResets ==
    passOut.done /\ passIn.transform.status = "ToResume" =>
        LET maps == MapsAtCall(passIn.work, passIn.maps)
            records == reactive_contents(maps)
            uc == passOut.ret.update_contents
        IN  /\ Len(uc) >= Len(records)
            /\ SubSeq(uc, Len(uc) - Len(records) + 1, Len(uc)) = records
            /\ \A r \in Range(records) :
                   /\ r.status = "New" /\ r.substatus = "New"
                   /\ \E i \in DOMAIN maps : \E c \in MapContents(maps[i]) :
                          c.content_id = r.content_id
            /\ \A i \in DOMAIN maps :
                   LET m == maps[i]
                   IN  IF \E o \in Range(m.outputs) : o.status # "Available"
                       THEN /\ \A c \in Range(m.inputs) \cup Range(m.outputs) :
                                   Occurrences(records, c.content_id) = 1
                            /\ \A d \in Range(m.inputs_dependency) :
                                   Occurrences(records, d.content_id)
                                       = IF d.status # "Available" THEN 1 ELSE 0
                            /\ \A l \in Range(m.logs) :
                                   Occurrences(records, l.content_id) = 0
                       ELSE \A c \in MapContents(m) :
                                Occurrences(records, c.content_id) = 0

\* a ToResume pass over two maps: the first has an Output that is not
\* Available, an Available and a FakeAvailable dependency, and got records for
\* its Input, its Output and the FakeAvailable dependency; the second has no
\* Output and got none
C33_Witness ==
    /\ passOut.done /\ passIn.transform.status = "ToResume"
    /\ ~passIn.work.should_release_inputs
    /\ Len(passIn.maps) = 2
    /\ passIn.maps[2].outputs = <<>> /\ passIn.maps[2].inputs # <<>>
    /\ passIn.maps[1].outputs[1].status = "New"
    /\ {d.status : d \in Range(passIn.maps[1].inputs_dependency)}
           = {"Available", "FakeAvailable"}
    /\ Len(passOut.ret.update_contents) >= 3
    /\ {passOut.ret.update_contents[k].content_id :
            k \in (Len(passOut.ret.update_contents) - 2)..Len(passOut.ret.update_contents)}
           = {passIn.maps[1].inputs[1].content_id, passIn.maps[1].outputs[1].content_id,
              passIn.maps[1].inputs_dependency[2].content_id}
    /\ reactive_contents(passIn.maps)
           = SubSeq(passOut.ret.update_contents,
                    Len(passOut.ret.update_contents) - 2,
                    Len(passOut.ret.update_contents))


\* the progressive statuses an operator request leaves behind
ProgressiveStatuses == {"Cancelling", "Suspending", "Expiring", "Resuming"}

\* the Work answers false to all six terminal predicates
NoneTerminal(work) ==
    /\ ~work.is_finished /\ ~work.is_subfinished /\ ~work.is_failed
    /\ ~work.is_expired /\ ~work.is_cancelled /\ ~work.is_suspended

\* C36: an update pass on a transform in Cancelling, Suspending, Expiring or
\* Resuming whose Work answers false to all six terminal predicates returns
\* status Transforming, in the first pass and in the pass that follows the one
\* which set the progressive status; no pass returns a To* status.
C36_ProgressiveStatusNotRetained ==
    /\ passOut.done /\ passIn.transform.status \in RunningStatuses =>
        /\ passOut.ret.transform_parameters.status \notin
               {"ToCancel", "ToSuspend", "ToResume", "ToExpire", "ToFinish",
                "ToForceFinish"}
        /\ passIn.transform.status \in ProgressiveStatuses
               /\ NoneTerminal(passIn.work)
               => passOut.ret.transform_parameters.status = "Transforming"
    /\ passAgain.done /\ passIn.transform.status \in RunningStatuses =>
        /\ passAgain.ret.transform_parameters.status \notin
               {"ToCancel", "ToSuspend", "ToResume", "ToExpire", "ToFinish",
                "ToForceFinish"}
        /\ passAgain.transform.status \in ProgressiveStatuses
               /\ NoneTerminal(passAgain.work)
               => passAgain.ret.transform_parameters.status = "Transforming"

\* a ToCancel pass returned Cancelling, and the next pass on the Cancelling
\* row, with no terminal predicate true, returned Transforming
C36_Witness ==
    /\ passOut.done /\ passAgain.done
    /\ passIn.transform.status = "ToCancel"
    /\ passOut.ret.transform_parameters.status = "Cancelling"
    /\ passAgain.transform.status = "Cancelling"
    /\ NoneTerminal(passAgain.work)
    /\ passAgain.ret.transform_parameters.status = "Transforming"


\* C37: after get_updated_contents every Output of every registered map has
\* status = substatus, so in a pass where the dependency evaluation ran
\* (should_release_inputs answered true) the all_updates_flushed value of the
\* collection sync that follows is true.
C37_OutputsFlushedAfterUpdate ==
    (/\ passOut.done /\ passIn.transform.status \in RunningStatuses
     /\ passIn.work.should_release_inputs) =>
        /\ \A c \in Range(AllOf(get_updated_contents(passIn.maps).maps, "outputs")) :
               c.status = c.substatus
        /\ passOut.ret.all_updates_flushed

\* a pass with dependency evaluation over a map that held an Output whose
\* substatus was ahead of its status next to flushed ones: the Output was
\* flushed and recorded, and the sync found all updates flushed
C37_Witness ==
    /\ passOut.done /\ passIn.transform.status \in RunningStatuses
    /\ passIn.work.should_release_inputs
    /\ \E c \in Range(AllOf(passIn.maps, "outputs")) :
           c.status = "New" /\ c.substatus = "Missing"
    /\ \E c \in Range(AllOf(passIn.maps, "outputs")) : c.status = c.substatus
    /\ passOut.ret.all_updates_flushed
    /\ \E r \in Range(passOut.ret.updated_contents) :
           r.status = "Missing" /\ r.substatus = "absent"

(***************************************************************************)
(* Spec: the agent.  Sweeps claim rows and publish events, worker threads  *)
(* run the four event handlers, and the clean-locking task clears old      *)
(* locks.  The store, the event bus and the thread pool belong to code     *)
(* outside transformer.py; they follow the system description: a claim     *)
(* sets locking = Locking, and the dispatcher calls pre_check and then the *)
(* process_*_transform method of the event's type on a pool thread.        *)
(*                                                                         *)
(* A step is what a thread does up to its next store call, event           *)
(* publication or access to number_workers.  A sweep is three kinds of     *)
(* step: the admission test, the claim query, one send per row.  A handler *)
(* is the read and the write of += 1, the call self.get_transform(...),    *)
(* and the read and the write of -= 1.  The class defines get_request and  *)
(* no get_transform, so that call raises AttributeError in each of the     *)
(* four handlers: the store is not asked, no row is obtained, no body      *)
(* runs and nothing is written or published by a handler.  What the        *)
(* methods behind that call do when they are called by themselves is in    *)
(* SpecHandler.                                                            *)
(*                                                                         *)
(* run() is a step of the untouched agent.  It raises in                   *)
(* init_event_function_map before it creates a task, and after that no     *)
(* sweep, no task and no handler is started; the other steps are the       *)
(* methods of an agent on which run() has not been called, called as the   *)
(* system description has the scheduler and the dispatcher call them.      *)
(*                                                                         *)
(* The environment is bounded: operators publish at most MaxOperatorEvents *)
(* events, and number_workers is followed down to -MaxLost.                *)
(***************************************************************************)
NumTransforms == 1
NumWorkers == 2
max_number_workers == 1
retries == 1
MaxOperatorEvents == 1
MaxLost == 1
retrieve_bulk_size == 10

Tids == 1..NumTransforms
Workers == 1..NumWorkers

EventTypes ==
    {"NewTransformEvent", "UpdateTransformEvent",
     "AbortTransformEvent", "ResumeTransformEvent"}

\* the methods class Transformer defines
TransformerMethods ==
    {"is_ok_to_run_more_requests", "show_queue_size", "get_new_transforms",
     "get_running_transforms", "get_request", "get_new_contents",
     "is_all_inputs_dependency_available", "is_all_inputs_dependency_terminated",
     "is_input_dependency_terminated", "get_updated_contents",
     "trigger_release_inputs", "poll_inputs_dependency",
     "handle_new_transform_real", "handle_new_transform", "update_transform",
     "process_new_transform", "get_collection_ids", "get_message_type",
     "generate_message", "syn_collection_status", "reactive_contents",
     "handle_update_transform_real", "process_running_transform_message",
     "handle_update_transform", "process_update_transform",
     "handle_abort_transform", "process_abort_transform",
     "handle_resume_transform", "process_resume_transform", "clean_locks",
     "init_event_function_map", "run"}

\* self.<name>: a bound method, or AttributeError
Resolve(name) == IF name \in TransformerMethods THEN name ELSE "AttributeError"

\* the exec_func names init_event_function_map writes
exec_func_names ==
    [NewTransformEvent |-> "process_new_request",
     UpdateTransformEvent |-> "process_update_request",
     AbortTransformEvent |-> "process_abort_request",
     ResumeTransformEvent |-> "process_resume_request"]

\* the dict literal is evaluated entry by entry; one AttributeError aborts it
init_event_function_map ==
    IF \E ty \in EventTypes : Resolve(exec_func_names[ty]) = "AttributeError"
    THEN [raised |-> TRUE]
    ELSE [raised |-> FALSE,
          event_func_map |->
              [ty \in EventTypes |->
                  [pre_check |-> Resolve("is_ok_to_run_more_requests"),
                   exec_func |-> Resolve(exec_func_names[ty])]]]

\* the handler the dispatcher runs for an event type
Handler ==
    [NewTransformEvent |-> "process_new_transform",
     UpdateTransformEvent |-> "process_update_transform",
     AbortTransformEvent |-> "process_abort_transform",
     ResumeTransformEvent |-> "process_resume_transform"]

\* a pre-check that lets every sweep and every handler pass
is_ok_to_run_more_requests_Always(n) == TRUE

is_ok_to_run_more_requests(n) == IF n >= max_number_workers THEN FALSE ELSE TRUE

AllStatuses == NewStatuses \cup RunningStatuses \cup TerminalStatuses

\* the error bundle of handle_new_transform and handle_update_transform
Max(a, b) == IF a > b THEN a ELSE b

\* next_poll_at, as the period and the factor added to utcnow()
PollAt(period, times) == [period |-> period, times |-> times]

ErrorParameters(transform) ==
    [status |-> IF transform.retries > retries THEN "Failed" ELSE "Transforming",
     next_poll_at |-> PollAt("poll_time_period", Max(4, transform.retries)),
     retries |-> transform.retries + 1,
     locking |-> "Idle"]

\* handle_new_transform_real returns within lines 431-441, or raises
handle_new_transform(transform, raised) ==
    IF raised THEN [transform_parameters |-> ErrorParameters(transform)]
    ELSE [transform_parameters |->
             [status |-> "Transforming", locking |-> "Idle",
              next_poll_at |-> PollAt("poll_time_period", 1)],
          new_processing |-> TRUE]

\* a pending command message: none, update_transform, an unknown command, or
\* a message without a command
Message(msg_content) == [msg_id |-> 7, status |-> "New", msg_content |-> msg_content]

MessageChoices ==
    {<<>>,
     <<Message([command |-> "update_transform", parameters |-> [status |-> "ToCancel"]])>>,
     <<Message([command |-> "update_request", parameters |-> [status |-> "ToCancel"]])>>,
     <<Message([parameters |-> [status |-> "ToCancel"]])>>}

UpdateMessage(msg, status) == [msg_id |-> msg.msg_id, status |-> status]

\* a method that applies the parameters of any command
process_running_transform_message_AnyCommand(transform, messages) ==
    LET msg == messages[1]
        message == msg.msg_content
    IN  [transform_parameters |->
            [k \in DOMAIN message.parameters \cup {"locking"} |->
                IF k = "locking" THEN "Idle" ELSE message.parameters[k]],
         update_messages |-> <<UpdateMessage(msg, "Delivered")>>]

process_running_transform_message(transform, messages) ==
    LET msg == messages[1]
        message == msg.msg_content
    IN  IF \/ "command" \notin DOMAIN message
           \/ message.command = "update_transform" /\ "parameters" \notin DOMAIN message
        THEN [transform_parameters |->
                 [status |-> IF transform.retries > retries THEN "Failed"
                             ELSE "Transforming",
                  next_poll_at |->
                      PollAt("poll_time_period", Max(4, transform.retries)),
                  locking |-> "Idle",
                  retries |-> transform.retries + 1,
                  errors |-> "msg"]]
        ELSE IF message.command = "update_transform"
        THEN [transform_parameters |->
                 [k \in DOMAIN message.parameters \cup {"locking"} |->
                     IF k = "locking" THEN "Idle" ELSE message.parameters[k]],
              update_messages |-> <<UpdateMessage(msg, "Delivered")>>]
        ELSE [transform_parameters |-> [locking |-> "Idle"],
              update_messages |-> <<UpdateMessage(msg, "Failed")>>]

\* get_transform_message(transform_id, bulk_size): up to bulk_size of the
\* messages pending for the transform
get_transform_message(pending, bulk_size) ==
    IF Len(pending) <= bulk_size THEN pending ELSE SubSeq(pending, 1, bulk_size)

\* a handle_update_transform that does not look for a message
handle_update_transform_IgnoreMessages(transform, pending) ==
    [transform_parameters |-> ErrorParameters(transform)]

\* lines 1139-1166.  pending is what the store holds for the transform.  With
\* a message the bundle is that of process_running_transform_message.
\* Without one line 1150 calls self.process_running_transform_real, which the
\* class does not define (Resolve gives AttributeError; the pass is defined as
\* handle_update_transform_real): the except clause answers the error bundle.
handle_update_transform(transform, pending) ==
    LET msgs == get_transform_message(pending, 1)
    IN  IF msgs # <<>> THEN process_running_transform_message(transform, msgs)
        ELSE [transform_parameters |-> ErrorParameters(transform)]

\* line 1201 sets the attribute to_cancel of the Work
handle_abort_transform(transform) ==
    [transform_parameters |->
        [status |-> "Cancelling", locking |-> "Idle",
         next_poll_at |-> PollAt("poll_operation_time_period", 1)],
     work_attributes |-> {"to_cancel"}]

\* lines 1250-1304: the row parameters of the bundle; the collections set to
\* Open and the records of reactive_contents go with it
handle_resume_transform(transform) ==
    [transform_parameters |->
        [status |-> "Resuming", retries |-> 0, locking |-> "Idle",
         next_poll_at |-> PollAt("poll_operation_time_period", 1)],
     work_attributes |-> {"toresume"},
     update_contents |-> TRUE]

\* lines 1223-1227, 1312-1316: the bundle for a transform the handler refuses
\* to change sets no status: locking Idle and an errors entry.  When the
\* errors of the row hold 'msg', ret['parameters'] raises KeyError (the key
\* written is 'transform_parameters') and no bundle is made.
RefusalBundle(transform) ==
    IF transform.errors = "msg" THEN [raised |-> "KeyError"]
    ELSE [transform_parameters |-> [locking |-> "Idle", errors |-> "extra_msg"]]

\* update_transform's fallback write
FallbackParameters(transform) ==
    [status |-> "Transforming",
     next_poll_at |-> PollAt("poll_time_period", 1),
     retries |-> transform.retries + 1,
     locking |-> "Idle"]

\* add_transform_outputs on the transform row: the parameters given replace
\* the row's values
add_transform_outputs(row, transform_parameters) ==
    [k \in DOMAIN row |->
        IF k \in DOMAIN transform_parameters THEN transform_parameters[k] ELSE row[k]]


(***************************************************************************)
(* The state of the agent.                                                 *)
(***************************************************************************)
\* rows the store can hold when the agent starts; one was left locked by a
\* worker that crashed
InitRows ==
    {[status |-> "New", locking |-> "Idle", retries |-> 0, errors |-> "empty"],
     [status |-> "Transforming", locking |-> "Idle", retries |-> 1, errors |-> "empty"],
     [status |-> "Transforming", locking |-> "Locking", retries |-> 0, errors |-> "empty"],
     [status |-> "Finished", locking |-> "Idle", retries |-> 0, errors |-> "empty"],
     [status |-> "Failed", locking |-> "Idle", retries |-> 2, errors |-> "msg"]}

Unlocked(by) == [holder |-> "none", stale |-> FALSE, relby |-> by]

\* the lock of a row at the start: a row that is Locking was left so by a
\* worker that is gone
InitLock(row) ==
    IF row.locking = "Locking"
    THEN [holder |-> "gone", stale |-> FALSE, relby |-> "init"]
    ELSE Unlocked("init")

IdleWorker == [pc |-> "idle"]

\* the two sweeps
SweepKinds == {"new", "running"}

IdleSweep == [pc |-> "idle"]

Init ==
    /\ tf \in [Tids -> InitRows]
    /\ lock = [t \in Tids |-> InitLock(tf[t])]
    /\ bus = {}
    /\ number_workers = 0
    /\ wk = [w \in Workers |-> IdleWorker]
    /\ run = [pc |-> "start"]
    /\ ops = 0
    /\ sweep = [k \in SweepKinds |-> IdleSweep]
    /\ ContentsIdle /\ PassIdle /\ HandlerIdle

Event(type, transform_id, claim) ==
    [type |-> type, transform_id |-> transform_id, claim |-> claim]

\* nothing has been called on the agent yet
Untouched ==
    /\ bus = {} /\ number_workers = 0 /\ ops = 0
    /\ \A w \in Workers : wk[w] = IdleWorker
    /\ \A k \in SweepKinds : sweep[k] = IdleSweep
    /\ \A t \in Tids : lock[t].holder # "sweep" /\ lock[t].relby = "init"

\* run() up to self.execute(): init_event_function_map either fills the map
\* or raises, and run() catches KeyboardInterrupt only.  It raises before a
\* task is created, so after it no sweep and no handler is started.
Run ==
    /\ run.pc = "start"
    /\ Untouched
    /\ run' = IF init_event_function_map.raised
              THEN [pc |-> "AttributeError"]
              ELSE [pc |-> "execute",
                    event_func_map |-> init_event_function_map.event_func_map]
    /\ UNCHANGED <<cvars, pvars, hvars, tf, lock, bus, number_workers, wk, ops,
                   sweep>>

\* the sweeps and the handlers are the methods as the scheduler and the
\* dispatcher call them; none is called once run() has raised
Callable == run.pc # "AttributeError"

\* get_transforms_by_status(status, locking=True, not_lock=True, next_poll_at,
\* bulk_size): the rows it may claim
Claimable(status) ==
    {t \in Tids : tf[t].status \in status /\ tf[t].locking = "Idle"}

\* the status list of a sweep and the event it sends
SweepStatuses(k) == IF k = "new" THEN NewStatuses ELSE RunningStatuses

SweepEvent(k) == IF k = "new" THEN "NewTransformEvent" ELSE "UpdateTransformEvent"

\* lines 78-79, 112-113: the sweep reads number_workers and goes on to the
\* query when is_ok_to_run_more_requests() is true; otherwise it returns []
Admission(k) ==
    /\ Callable
    /\ sweep[k].pc = "idle"
    /\ is_ok_to_run_more_requests(number_workers)
    /\ sweep' = [sweep EXCEPT ![k] = [pc |-> "query"]]
    /\ UNCHANGED <<cvars, pvars, hvars, tf, lock, bus, number_workers, wk, run,
                   ops>>

\* lines 85-87, 124-128: the claim query sets up to bulk_size of the rows
\* that are due to Locking and returns them (none when it raises
\* DatabaseException, lines 98-105 and 139-145); with rows the sweep goes on
\* to its loop
Claim(k) ==
    /\ sweep[k].pc = "query"
    /\ \E batch \in SUBSET Claimable(SweepStatuses(k)) :
        /\ Cardinality(batch) <= retrieve_bulk_size
        /\ tf' = [t \in Tids |->
                    IF t \in batch THEN [tf[t] EXCEPT !.locking = "Locking"] ELSE tf[t]]
        /\ lock' = [t \in Tids |->
                    IF t \in batch
                    THEN [holder |-> "sweep", stale |-> FALSE, relby |-> lock[t].relby]
                    ELSE lock[t]]
        /\ sweep' = [sweep EXCEPT ![k] =
                        IF batch = {} THEN IdleSweep
                        ELSE [pc |-> "send", rows |-> batch]]
    /\ UNCHANGED <<cvars, pvars, hvars, bus, number_workers, wk, run, ops>>

\* lines 93-95, 134-136: one turn of the loop, self.event_bus.send(event)
Send(k) ==
    /\ sweep[k].pc = "send"
    /\ \E t \in sweep[k].rows :
        /\ bus' = bus \cup {Event(SweepEvent(k), t, TRUE)}
        /\ sweep' = [sweep EXCEPT ![k] =
                        IF sweep[k].rows = {t} THEN IdleSweep
                        ELSE [pc |-> "send", rows |-> sweep[k].rows \ {t}]]
    /\ UNCHANGED <<cvars, pvars, hvars, tf, lock, number_workers, wk, run, ops>>

get_new_transforms == Admission("new") \/ Claim("new") \/ Send("new")

get_running_transforms ==
    Admission("running") \/ Claim("running") \/ Send("running")

\* another agent publishes an AbortTransformEvent or a ResumeTransformEvent
Operator ==
    /\ Callable
    /\ ops < MaxOperatorEvents
    /\ \E type \in {"AbortTransformEvent", "ResumeTransformEvent"}, t \in Tids :
        bus' = bus \cup {Event(type, t, FALSE)}
    /\ ops' = ops + 1
    /\ UNCHANGED <<cvars, pvars, hvars, tf, lock, number_workers, wk, run, sweep>>

\* time passes: the lock of row t grows older than the clean-locking threshold
LockAges(t) ==
    /\ tf[t].locking = "Locking"
    /\ ~lock[t].stale
    /\ lock' = [lock EXCEPT ![t].stale = TRUE]
    /\ UNCHANGED <<cvars, pvars, hvars, tf, bus, number_workers, wk, run, ops,
                   sweep>>

LockExpires == \E t \in Tids : LockAges(t)

\* clean_locks: clean_locking() sets every old lock back to Idle
clean_locks ==
    /\ Callable
    /\ \E t \in Tids : lock[t].stale
    /\ tf' = [t \in Tids |->
                IF lock[t].stale THEN [tf[t] EXCEPT !.locking = "Idle"] ELSE tf[t]]
    /\ lock' = [t \in Tids |->
                IF lock[t].stale THEN Unlocked("clean_locks") ELSE lock[t]]
    /\ UNCHANGED <<cvars, pvars, hvars, bus, number_workers, wk, run, ops, sweep>>

\* the dispatcher calls pre_check and hands exec_func(event) to the first
\* free pool thread
Dispatch(w) ==
    /\ Callable
    /\ wk[w].pc = "idle"
    /\ \A v \in Workers : v < w => wk[v].pc # "idle"
    /\ is_ok_to_run_more_requests(number_workers)
    /\ number_workers > -MaxLost
    /\ \E e \in bus :
        /\ bus' = bus \ {e}
        /\ wk' = [wk EXCEPT ![w] =
                    [pc |-> "enter", handler |-> Handler[e.type], event |-> e]]
    /\ UNCHANGED <<cvars, pvars, hvars, tf, lock, number_workers, run, ops, sweep>>

\* self.number_workers += 1: the read
Enter(w) ==
    /\ wk[w].pc = "enter"
    /\ wk' = [wk EXCEPT ![w] = [pc |-> "increment", handler |-> @.handler,
                                event |-> @.event, reg |-> number_workers]]
    /\ UNCHANGED <<cvars, pvars, hvars, tf, lock, bus, number_workers, run, ops,
                   sweep>>

\* self.number_workers += 1: the write
Increment(w) ==
    /\ wk[w].pc = "increment"
    /\ number_workers' = wk[w].reg + 1
    /\ wk' = [wk EXCEPT ![w] = [pc |-> "get_transform", handler |-> @.handler,
                                event |-> @.event]]
    /\ UNCHANGED <<cvars, pvars, hvars, tf, lock, bus, run, ops, sweep>>

\* tf = self.get_transform(...), lines 525, 1178, 1219, 1310.  The class
\* defines no get_transform: the attribute lookup raises AttributeError
\* before the store is asked, the except clause of the handler logs it, and
\* the handler goes on to number_workers -= 1.  No row is obtained or locked
\* and nothing is written.
GetTransform(w) ==
    /\ wk[w].pc = "get_transform"
    /\ Resolve("get_transform") = "AttributeError"
    /\ wk' = [wk EXCEPT ![w] = [pc |-> "leave", event |-> @.event,
                                outcome |-> "AttributeError"]]
    /\ UNCHANGED <<cvars, pvars, hvars, tf, lock, bus, number_workers, run, ops,
                   sweep>>

\* self.number_workers -= 1: the read
Leave(w) ==
    /\ wk[w].pc = "leave"
    /\ wk' = [wk EXCEPT ![w] = [pc |-> "decrement", reg |-> number_workers]]
    /\ UNCHANGED <<cvars, pvars, hvars, tf, lock, bus, number_workers, run, ops,
                   sweep>>

\* self.number_workers -= 1: the write; the handler returns
Decrement(w) ==
    /\ wk[w].pc = "decrement"
    /\ number_workers' = wk[w].reg - 1
    /\ wk' = [wk EXCEPT ![w] = IdleWorker]
    /\ UNCHANGED <<cvars, pvars, hvars, tf, lock, bus, run, ops, sweep>>

Next ==
    \/ Run
    \/ get_new_transforms
    \/ get_running_transforms
    \/ Operator
    \/ LockExpires
    \/ clean_locks
    \/ \E w \in Workers : Dispatch(w)
    \/ \E w \in Workers : Enter(w)
    \/ \E w \in Workers : Increment(w)
    \/ \E w \in Workers : GetTransform(w)
    \/ \E w \in Workers : Leave(w)
    \/ \E w \in Workers : Decrement(w)

Spec == Init /\ [][Next]_vars


(***************************************************************************)
(* Claims on the agent.                                                    *)
(***************************************************************************)
Executing == {w \in Workers : wk[w].pc # "idle"}

\* the handlers between the write of their increment and of their decrement
Counted == {w \in Workers : wk[w].pc \notin {"idle", "enter", "increment"}}

\* C1: a transform claimed by a sweep batch is not claimed by another batch
\* until a writeback has set its locking flag back to Idle: whenever a row is
\* locked, the flag was Idle from the start or was last set Idle by the
\* writeback of the handler that held it.
C1_OnlyWritebackReleases ==
    \A t \in Tids : tf[t].locking = "Locking" => lock[t].relby \in {"init", "writeback"}

\* C2: number_workers equals the number of handlers that have incremented it
\* and not yet decremented it; it is 0 when no handler is executing.
C2_CounterMatchesExecuting == number_workers = Cardinality(Counted)

\* C3: no more than max_number_workers handlers execute at the same time.
C3_AtMostMaxWorkers == Cardinality(Executing) <= max_number_workers

\* C4: a handler run for a transform that was locked for it with
\* locking=True does not return without the writeback that sets locking
\* Idle: its run does not end in the except clause before update_transform.
C4_LockedRunWritesBack ==
    \A w \in Workers :
        wk[w].pc = "leave" /\ wk[w].event.claim => wk[w].outcome # "AttributeError"

\* C5: once run() has built event_func_map, each subscribed event type maps
\* to its own handler.
C5_EachTypeHasItsHandler ==
    run.pc # "start" =>
        /\ run.pc = "execute"
        /\ \A ty \in EventTypes : run.event_func_map[ty].exec_func = Handler[ty]



\* the rows a step claims for a sweep, and the sweep events it publishes
SweepClaimed == {t \in Tids : tf[t].locking = "Idle" /\ tf'[t].locking = "Locking"}
SweepPublished == {e \in bus' : e.claim /\ e \notin bus}

\* the event type a sweep publishes for a row of this status
SweepEventType(status) ==
    IF status \in NewStatuses THEN "NewTransformEvent" ELSE "UpdateTransformEvent"

\* the sweep whose list holds this status
SweepOf(status) == IF status \in NewStatuses THEN "new" ELSE "running"

AttemptFails(w, t) ==
    /\ wk[w].pc = "get_transform"
    /\ wk[w].event.claim /\ wk[w].event.transform_id = t
    /\ wk'[w].pc = "leave"

\* C39: on a transform whose handler fails on every attempt, each failed
\* attempt leaves the row with retries one higher than it was, which is what
\* takes the counter past the limit and the row to Failed; a row that is
\* Failed keeps that status and is not claimed by a sweep again.
C39_RetriesGrowUntilFailed ==
    [][\A t \in Tids :
         /\ \A w \in Workers :
              AttemptFails(w, t) => tf'[t].retries = tf[t].retries + 1
         /\ tf[t].status = "Failed" =>
              /\ tf'[t].status = "Failed"
              /\ lock'[t].holder # "sweep"
      ]_vars

(***************************************************************************)
(* SpecLive: the agent with the main thread and the periodic tasks         *)
(* scheduled fairly.  The program calls run() (lines 1388-1390).  run()    *)
(* adds the two sweeps and clean_locks as repeated tasks (lines 1376-1381) *)
(* and starts the scheduler (line 1383); a task that run() has added is    *)
(* run again and again.  Time passes for every row, so a lock that stays   *)
(* grows old.                                                              *)
(***************************************************************************)
\* run() has added its tasks and reached self.execute()
Scheduled == run.pc = "execute"

SpecLive ==
    /\ Init /\ [][Next]_vars
    /\ WF_vars(Run)
    /\ \A t \in Tids : WF_vars(LockAges(t))
    /\ WF_vars(Scheduled /\ clean_locks)
    /\ \A k \in SweepKinds :
        WF_vars(Scheduled /\ (Admission(k) \/ Claim(k) \/ Send(k)))

\* a handler that was started for the row and has not reached its except
\* clause, or a sweep event that will bring one
Running(t) ==
    \/ \E w \in Workers :
        /\ wk[w].pc \in {"enter", "increment", "get_transform"}
        /\ wk[w].event.transform_id = t
    \/ \E e \in bus : e.transform_id = t /\ e.claim
    \/ \E k \in SweepKinds : sweep[k].pc = "send" /\ t \in sweep[k].rows

\* the row is locked and no handler is left that runs for it
Stuck(t) == tf[t].locking = "Locking" /\ ~Running(t)

\* C24: a transform left with locking = Locking and no running handler
\* eventually has its flag cleared by the clean_locks task and is Idle, which
\* is what a sweep needs to claim it, when the periodic tasks are scheduled
\* fairly.
C24_StuckLockIsCleaned ==
    \A t \in Tids :
        Stuck(t) ~> (tf[t].locking = "Idle" /\ lock[t].relby = "clean_locks")

(***************************************************************************)
(* SpecHandler: one handler.  A process_*_transform method is called with  *)
(* an event and ends in its except clause on the AttributeError of         *)
(* self.get_transform (Process).  The lines of the method that follow that *)
(* call are run for a transform (CallMethod): the handle_* method of the   *)
(* branch returns a result bundle, update_transform writes it              *)
(* (add_transform_outputs with the whole bundle up to five times, a sleep  *)
(* after each deadlock, and one parameter-only write when the bundle could *)
(* not be written), and the method sends its events.                       *)
(* handle_resume_transform, which no handler calls, is called by itself    *)
(* and its bundle written.  A call of add_transform_outputs commits all it *)
(* was given or nothing.                                                   *)
(***************************************************************************)
\* retries values of the row: below, at and above the limit, and above 4
HandlerRetries == {0, retries, retries + 1, 5}

HandlerRows ==
    [status : AllStatuses, locking : {"Idle"}, retries : HandlerRetries,
     errors : {"empty", "msg"}, next_poll_at : {PollAt("stored", 0)}]

\* the pending message of the transform; one sets several columns
HandlerMessageChoices ==
    MessageChoices \cup
        {<<Message([command |-> "update_transform",
                    parameters |-> [status |-> "ToSuspend", locking |-> "Locking",
                                    errors |-> "empty"]])>>}

\* the methods that are called with an event
ProcessMethods == {Handler[ty] : ty \in EventTypes}

\* the methods that return the bundle of a branch; update_transform stands
\* for the branch that calls it with a bundle built in place (lines 1223-1228,
\* 1312-1317)
BundleMethods ==
    {"handle_new_transform", "handle_update_transform", "handle_abort_transform",
     "handle_resume_transform", "update_transform"}

\* the process_*_transform methods that call a method for its bundle:
\* lines 527, 1180, 1230 and 1319, 1228 and 1317; none calls
\* handle_resume_transform
Callers(method) ==
    CASE method = "handle_new_transform" -> {"process_new_transform"}
      [] method = "handle_update_transform" -> {"process_update_transform"}
      [] method \in {"handle_abort_transform", "update_transform"} ->
            {"process_abort_transform", "process_resume_transform"}
      [] OTHER -> {"none"}

\* the statuses of the transforms a branch is run for: those of the status
\* list given to self.get_transform (lines 524, 1172-1177), and those of the
\* tests of lines 1220-1222 and 1311
MethodStatuses(caller, method) ==
    CASE caller = "process_new_transform" -> NewStatuses
      [] caller = "process_update_transform" -> RunningStatuses
      [] caller = "process_abort_transform" ->
            IF method = "update_transform" THEN TerminalStatuses
            ELSE AllStatuses \ TerminalStatuses
      [] caller = "process_resume_transform" ->
            IF method = "update_transform" THEN {"Finished"}
            ELSE AllStatuses \ {"Finished"}
      [] OTHER -> AllStatuses

\* the bundle of a branch for a transform
Bundle(method, transform, pending, raised) ==
    CASE method = "handle_new_transform" -> handle_new_transform(transform, raised)
      [] method = "handle_update_transform" -> handle_update_transform(transform, pending)
      [] method = "handle_abort_transform" -> handle_abort_transform(transform)
      [] method = "handle_resume_transform" -> handle_resume_transform(transform)
      [] OTHER -> RefusalBundle(transform)

\* the ids add_transform_outputs returns for the processing of the bundle
new_pr_ids(ret) == IF "new_processing" \in DOMAIN ret THEN <<21>> ELSE <<>>
update_pr_ids(ret) == IF "update_processing" \in DOMAIN ret THEN <<22>> ELSE <<>>

\* an update_transform that hands back the ids of the bundle it was given
pr_ids_returned_Staged(written, ids) == ids

\* lines 467-518: what update_transform returns of them: the lists start
\* empty and are assigned by a call of add_transform_outputs that returned;
\* the parameter-only call is given no processing
pr_ids_returned(written, ids) == IF written = "bundle" THEN ids ELSE <<>>

HandlerEvent(type, id) == [type |-> type, id |-> id]

HandlerInit == HandlerIdle /\ ContentsIdle /\ PassIdle /\ AgentIdle

\* what a call starts from
Called(caller, method, transform, pending, raised, processing, ret, pc) ==
    [pc |-> pc, caller |-> caller, method |-> method, transform |-> transform,
     msgs |-> pending, handler_raised |-> raised, processing |-> processing,
     ret |-> ret, retry_num |-> 0, slept |-> <<>>, failure |-> "none",
     written |-> "nothing", new_pr_ids |-> <<>>, update_pr_ids |-> <<>>]

Stored(row, pending) ==
    [row |-> row, message |-> IF pending = <<>> THEN "none" ELSE pending[1].status,
     calls |-> 0, commits |-> 0, parameter_calls |-> 0, parameter_writes |-> 0]

\* process_new_transform, process_update_transform, process_abort_transform
\* or process_resume_transform is called with the event of a transform: the
\* row of a sweep event is locked by the claim, that of an operator event is
\* not.  self.get_transform raises AttributeError, the except clause logs
\* it, and the method returns: nothing is read, written or sent.
Process ==
    /\ hnd.pc = "idle"
    /\ \E method \in ProcessMethods, row \in HandlerRows :
        /\ method = "process_new_transform" => row.status \in NewStatuses
        /\ method = "process_update_transform" => row.status \in RunningStatuses
        /\ Resolve("get_transform") = "AttributeError"
        /\ hnd' = Called(method, method, row, <<>>, FALSE, "None", <<>>, "done")
        /\ db' = Stored(IF method \in {"process_new_transform",
                                        "process_update_transform"}
                        THEN [row EXCEPT !.locking = "Locking"] ELSE row, <<>>)
    /\ UNCHANGED <<sent, cvars, pvars, avars>>

\* the lines of a process_*_transform method that follow self.get_transform,
\* for a transform tf whose row is locked in the store (lines 526-528,
\* 1179-1183, 1220-1232, 1311-1321), up to the call of update_transform:
\* the bundle of the branch, and the UpdateRequestEvent that
\* process_update_transform sends before it writes.  A KeyError in the
\* branch ends the method in its except clause.
CallMethod ==
    /\ hnd.pc = "idle"
    /\ \E method \in BundleMethods, row \in HandlerRows,
          pending \in HandlerMessageChoices, raised \in BOOLEAN,
          processing \in ProcessingChoices :
        \E caller \in Callers(method) :
            /\ row.status \in MethodStatuses(caller, method)
            /\ pending # <<>> => method = "handle_update_transform"
            /\ raised => method = "handle_new_transform"
            /\ processing # "None" =>
                   method = "handle_abort_transform"
            /\ LET ret == Bundle(method, row, pending, raised)
               IN  hnd' = Called(caller, method, row, pending, raised, processing, ret,
                                 IF "raised" \in DOMAIN ret THEN "done"
                                 ELSE "update_transform")
            /\ db' = Stored([row EXCEPT !.locking = "Locking"], pending)
            /\ sent' = IF caller = "process_update_transform"
                       THEN <<HandlerEvent("UpdateRequestEvent", 1)>> ELSE <<>>
    /\ UNCHANGED <<cvars, pvars, avars>>

StorageResults == {"ok", "ORA-00060", "DatabaseException"}

\* a loop that takes another turn after any storage error
Retry_AnyError(result, retry_num) == retry_num < 5

\* lines 493-503: whether the loop takes another turn after a failed call
Retry(result, retry_num) == result = "ORA-00060" /\ retry_num < 5

\* update_transform has returned: the ids it hands back
Returned(h, written) ==
    [h EXCEPT !.pc = "send", !.written = written,
              !.new_pr_ids = pr_ids_returned(written, new_pr_ids(h.ret)),
              !.update_pr_ids = pr_ids_returned(written, update_pr_ids(h.ret))]

\* one turn of the while loop of update_transform, lines 473-503
AddTransformOutputs ==
    /\ hnd.pc = "update_transform"
    /\ \E result \in StorageResults :
        LET retry_num == hnd.retry_num + 1
            failure == IF result = "ORA-00060" THEN "deadlock" ELSE "other"
        IN  IF result = "ok"
            THEN /\ db' = [db EXCEPT
                             !.row = add_transform_outputs(@, hnd.ret.transform_parameters),
                             !.message = IF "update_messages" \in DOMAIN hnd.ret
                                         THEN hnd.ret.update_messages[1].status
                                         ELSE @,
                             !.calls = @ + 1, !.commits = @ + 1]
                 /\ hnd' = Returned([hnd EXCEPT !.retry_num = retry_num], "bundle")
            ELSE /\ db' = [db EXCEPT !.calls = @ + 1]
                 /\ hnd' = IF Retry(result, retry_num)
                           THEN [hnd EXCEPT !.retry_num = retry_num,
                                            !.failure = failure,
                                            !.slept = Append(@, 60 * retry_num * 2)]
                           ELSE [hnd EXCEPT !.pc = "fallback",
                                            !.retry_num = retry_num,
                                            !.failure = failure]
    /\ UNCHANGED <<sent, cvars, pvars, avars>>

\* the except clause of update_transform, lines 505-517: a write of four
\* parameters, whose own failure is logged only
FallbackWrite ==
    /\ hnd.pc = "fallback"
    /\ \E ok \in BOOLEAN :
        /\ db' = IF ok
                 THEN [db EXCEPT
                         !.row = add_transform_outputs(@, FallbackParameters(hnd.transform)),
                         !.parameter_calls = @ + 1,
                         !.parameter_writes = @ + 1]
                 ELSE [db EXCEPT !.parameter_calls = @ + 1]
        /\ hnd' = Returned(hnd, IF ok THEN "parameters" ELSE "nothing")
    /\ UNCHANGED <<sent, cvars, pvars, avars>>

\* the event of lines 1238-1244, 1327-1333: for the processing of the Work
\* when it has a persisted id, otherwise an UpdateTransformEvent
OperationEvent(caller, processing) ==
    IF processing = "persisted"
    THEN HandlerEvent(IF caller = "process_abort_transform"
                      THEN "AbortProcessingEvent" ELSE "ResumeProcessingEvent", 31)
    ELSE HandlerEvent("UpdateTransformEvent", 1)

\* the sends that follow update_transform: one event per returned processing
\* id in process_new_transform and process_update_transform (lines 529-534,
\* 1184-1189); in process_abort_transform and process_resume_transform, off
\* the branch of a refused transform, one event (lines 1238-1244, 1327-1333)
SendEvents ==
    /\ hnd.pc = "send"
    /\ sent' = sent \o
         (IF hnd.caller \in {"process_new_transform", "process_update_transform"}
          THEN [i \in DOMAIN hnd.new_pr_ids |->
                   HandlerEvent("NewProcessingEvent", hnd.new_pr_ids[i])]
               \o [i \in DOMAIN hnd.update_pr_ids |->
                   HandlerEvent("UpdateProcessingEvent", hnd.update_pr_ids[i])]
          ELSE IF hnd.method = "handle_abort_transform"
          THEN <<OperationEvent(hnd.caller, hnd.processing)>>
          ELSE <<>>)
    /\ hnd' = [hnd EXCEPT !.pc = "done"]
    /\ UNCHANGED <<db, cvars, pvars, avars>>

HandlerNext ==
    Process \/ CallMethod \/ AddTransformOutputs \/ FallbackWrite \/ SendEvents

SpecHandler == HandlerInit /\ [][HandlerNext]_vars

\* the result is the bundle built in the except clause of
\* handle_new_transform or of handle_update_transform
Caught ==
    /\ hnd.pc # "idle"
    /\ \/ hnd.method = "handle_new_transform" /\ hnd.handler_raised
       \/ hnd.method = "handle_update_transform" /\ hnd.msgs = <<>>

\* C13: the bundle handle_new_transform or handle_update_transform builds
\* when it catches an exception has retries one above the row's and locking
\* Idle; its status is Failed exactly when that incremented retries value
\* exceeds the retries limit, and otherwise Transforming with next_poll_at
\* poll_time_period * max(4, retries) after now.
C13_ErrorBundle ==
    Caught =>
        LET p == hnd.ret.transform_parameters
        IN  /\ p.retries = hnd.transform.retries + 1
            /\ p.locking = "Idle"
            /\ p.status = "Failed" <=> p.retries > retries
            /\ p.status # "Failed" =>
                   /\ p.status = "Transforming"
                   /\ p.next_poll_at =
                          PollAt("poll_time_period", Max(4, hnd.transform.retries))

Sent(type, id) == Cardinality({i \in DOMAIN sent : sent[i] = HandlerEvent(type, id)})

\* process_new_transform or process_update_transform has returned after
\* update_transform wrote the bundle
BundleWritten ==
    /\ hnd.pc = "done"
    /\ hnd.written = "bundle"
    /\ hnd.caller \in {"process_new_transform", "process_update_transform"}

\* C14: update_transform calls add_transform_outputs with the whole bundle at
\* most 5 times, takes another turn only after a deadlock error, and has
\* slept 60 * k * 2 seconds after its k-th failed call (120, 240, ...); when
\* a call succeeds the bundle is committed exactly once, and once the handler
\* has returned every returned processing id has exactly one
\* NewProcessingEvent or UpdateProcessingEvent.
C14_DeadlockRetries ==
    hnd.pc # "idle" =>
        /\ db.calls = hnd.retry_num
        /\ db.calls <= 5
        /\ hnd.pc = "update_transform" /\ hnd.retry_num > 0 => hnd.failure = "deadlock"
        /\ Len(hnd.slept) <= 4
        /\ \A k \in DOMAIN hnd.slept : hnd.slept[k] = 60 * k * 2
        /\ hnd.pc = "update_transform" => Len(hnd.slept) = hnd.retry_num
        /\ hnd.written = "bundle" =>
               /\ db.commits = 1
               /\ Len(hnd.slept) = hnd.retry_num - 1
               /\ db.parameter_writes = 0
               /\ hnd.new_pr_ids = new_pr_ids(hnd.ret)
               /\ hnd.update_pr_ids = update_pr_ids(hnd.ret)
        /\ hnd.written # "bundle" => db.commits = 0
        /\ BundleWritten =>
               /\ \A id \in Range(hnd.new_pr_ids) : Sent("NewProcessingEvent", id) = 1
               /\ \A id \in Range(hnd.update_pr_ids) :
                      Sent("UpdateProcessingEvent", id) = 1
               /\ Len(sent) = Len(hnd.new_pr_ids) + Len(hnd.update_pr_ids)
                                 + Sent("UpdateRequestEvent", 1)

\* a new transform whose bundle met two deadlocks and was written by the
\* third call: sleeps of 120 s and 240 s, one commit, one NewProcessingEvent
C14_Witness ==
    /\ hnd.pc = "done"
    /\ hnd.caller = "process_new_transform"
    /\ ~hnd.handler_raised
    /\ hnd.retry_num = 3
    /\ hnd.slept = <<120, 240>>
    /\ db.calls = 3 /\ db.commits = 1
    /\ db.row.status = "Transforming" /\ db.row.locking = "Idle"
    /\ hnd.new_pr_ids = <<21>>
    /\ sent = <<HandlerEvent("NewProcessingEvent", 21)>>

\* update_transform has left its loop because the fifth call met a deadlock
\* like the four before it, and its except clause has run
DeadlocksExhausted ==
    /\ hnd.pc \in {"send", "done"}
    /\ hnd.written # "bundle"
    /\ hnd.failure = "deadlock"

\* C15: when every call of add_transform_outputs with the bundle has met a
\* deadlock, one write of parameters only is made for the transform: the
\* row has status Transforming, retries one above the retries it had,
\* locking Idle and next_poll_at poll_time_period after now; nothing of the
\* bundle is written: no commit of it, the message keeps its status, the
\* other columns of the row stay, and no processing event is sent.
C15_FallbackAfterDeadlocks ==
    DeadlocksExhausted =>
        /\ db.calls = 5
        /\ hnd.slept = <<120, 240, 360, 480>>
        /\ db.parameter_calls = 1
        /\ db.commits = 0
        /\ db.message = (IF hnd.msgs = <<>> THEN "none" ELSE hnd.msgs[1].status)
        /\ Sent("NewProcessingEvent", 21) = 0 /\ Sent("UpdateProcessingEvent", 22) = 0
        /\ db.parameter_writes = 1
        /\ db.row = [hnd.transform EXCEPT
                        !.status = "Transforming",
                        !.retries = hnd.transform.retries + 1,
                        !.locking = "Idle",
                        !.next_poll_at = PollAt("poll_time_period", 1)]

\* update_transform has left its loop because a call of add_transform_outputs
\* raised a DatabaseException that is not a deadlock
OtherStorageError ==
    /\ hnd.pc = "done"
    /\ hnd.written # "bundle"
    /\ hnd.failure = "other"

\* C16: when add_transform_outputs fails with a storage error that is not a
\* deadlock, the handler writes nothing for the transform: no write of
\* parameters is made, status and retries stay as the handler found them
\* and the row stays locked.
C16_OtherStorageErrorWritesNothing ==
    OtherStorageError =>
        /\ db.parameter_calls = 0
        /\ db.row.status = hnd.transform.status
        /\ db.row.retries = hnd.transform.retries
        /\ db.row.locking = "Locking"

\* handle_update_transform was called for a transform with a pending message
\* that carries a command
Commanded ==
    /\ hnd.pc # "idle"
    /\ hnd.method = "handle_update_transform"
    /\ hnd.msgs # <<>>
    /\ "command" \in DOMAIN hnd.msgs[1].msg_content

\* C17: when a command message is pending, the bundle of
\* handle_update_transform is not that of the update pass: it holds
\* transform_parameters and update_messages only (no contents, no
\* collections, no processing); for command update_transform the parameters
\* are exactly those of the message with locking Idle and the message is
\* marked Delivered, and a successful write leaves the row and the message so.
C17_CommandMessageReplacesPass ==
    Commanded =>
        LET msg == hnd.msgs[1]
            message == msg.msg_content
            p == hnd.ret.transform_parameters
        IN  /\ DOMAIN hnd.ret = {"transform_parameters", "update_messages"}
            /\ message.command = "update_transform" =>
                   /\ DOMAIN p = DOMAIN message.parameters \cup {"locking"}
                   /\ p.locking = "Idle"
                   /\ \A k \in DOMAIN message.parameters \ {"locking"} :
                          p[k] = message.parameters[k]
                   /\ hnd.ret.update_messages =
                          <<[msg_id |-> msg.msg_id, status |-> "Delivered"]>>
                   /\ hnd.written = "bundle" =>
                          /\ db.message = "Delivered"
                          /\ \A k \in DOMAIN db.row :
                                 db.row[k] = IF k \in DOMAIN p THEN p[k]
                                             ELSE hnd.transform[k]

\* an update_transform command that sets status ToSuspend, locking and errors
\* was handled on a Transforming row with two earlier failures and written:
\* the row is ToSuspend and Idle, its retries stayed, the message is Delivered
C17_Witness ==
    /\ Commanded
    /\ hnd.pc = "done"
    /\ hnd.written = "bundle"
    /\ hnd.msgs[1].msg_content.command = "update_transform"
    /\ hnd.msgs[1].msg_content.parameters.status = "ToSuspend"
    /\ hnd.transform.status = "Transforming"
    /\ hnd.transform.retries = retries + 1
    /\ db.row.status = "ToSuspend"
    /\ db.row.locking = "Idle"
    /\ db.row.retries = hnd.transform.retries
    /\ db.message = "Delivered"

\* C18: when the pending message carries a command other than
\* update_transform, the bundle marks the message Failed and its only
\* transform parameter is locking Idle; a successful write leaves status,
\* retries, next_poll_at and errors of the row as they were.
C18_UnknownCommandFails ==
    Commanded /\ hnd.msgs[1].msg_content.command # "update_transform" =>
        /\ hnd.ret.transform_parameters = [locking |-> "Idle"]
        /\ "update_messages" \in DOMAIN hnd.ret
        /\ hnd.ret.update_messages =
               <<[msg_id |-> hnd.msgs[1].msg_id, status |-> "Failed"]>>
        /\ hnd.written = "bundle" =>
               /\ db.message = "Failed"
               /\ db.row = [hnd.transform EXCEPT !.locking = "Idle"]

\* a message with command update_request was handled on a ToCancel row and
\* written: the message is Failed, the row is ToCancel as before and Idle
C18_Witness ==
    /\ Commanded
    /\ hnd.pc = "done"
    /\ hnd.written = "bundle"
    /\ hnd.msgs[1].msg_content.command = "update_request"
    /\ hnd.transform.status = "ToCancel"
    /\ hnd.transform.retries = 5
    /\ db.message = "Failed"
    /\ db.row.status = "ToCancel"
    /\ db.row.retries = 5
    /\ db.row.locking = "Idle"

\* a process_*_transform method was called for a transform in one of the
\* statuses, with its event or from the transform on, and has returned
Handled(methods, statuses) ==
    /\ hnd.pc = "done"
    /\ hnd.caller \in methods
    /\ hnd.transform.status \in statuses

\* C19: after an AbortTransformEvent or a ResumeTransformEvent was handled
\* for a transform in a terminal status, the row has the status it had, its
\* errors hold extra_msg, its locking is Idle, and no event was published.
C19_TerminalIsRefused ==
    Handled({"process_abort_transform", "process_resume_transform"},
            TerminalStatuses) =>
        /\ db.row.status = hnd.transform.status
        /\ db.row.errors = "extra_msg"
        /\ db.row.locking = "Idle"
        /\ sent = <<>>

\* C20: after an AbortTransformEvent was handled for a transform in a
\* non-terminal status, the attribute tocancel of the Work is set, the row is
\* Cancelling and Idle, and exactly one event was published:
\* AbortProcessingEvent for the processing when it has a persisted id,
\* otherwise UpdateTransformEvent for the transform.
C20_AbortCancels ==
    Handled({"process_abort_transform"}, AllStatuses \ TerminalStatuses) =>
        /\ db.row.status = "Cancelling"
        /\ db.row.locking = "Idle"
        /\ sent \in {<<HandlerEvent("AbortProcessingEvent", 31)>>,
                     <<HandlerEvent("UpdateTransformEvent", 1)>>}


(***************************************************************************)
(* SpecNew: handle_new_transform_real applied once to a transform of the   *)
(* new sweep, then the first update pass on what the store holds after the *)
(* bundle of the new pass was written.                                     *)
(***************************************************************************)
\* lines 364-441
handle_new_transform_real(transform, work) ==
    LET nc == get_new_contents(work.new_input_output_maps)
        new_contents == nc.new_input_contents \o nc.new_output_contents
                            \o nc.new_log_contents \o nc.new_input_dependency_contents
        \* line 393: get_processing(without_creating=False)
        processing == IF work.processing = "None" THEN "new" ELSE work.processing
        new_processing_model ==
            IF processing = "new" THEN [present |-> TRUE, status |-> "New"]
            ELSE [present |-> FALSE, status |-> "None"]
        msgs == FileMessages(transform,
            <<[files |-> nc.new_input_contents, relation_type |-> "input"],
              [files |-> nc.new_output_contents, relation_type |-> "output"]>>)
    IN  [transform_parameters |->
            [status |-> "Transforming", locking |-> "Idle",
             next_poll_at |-> PollAt("poll_time_period", 1)],
         new_contents |-> new_contents,
         messages |-> msgs,
         new_processing |-> new_processing_model,
         has_new_updates |-> new_contents # <<>>]

NoContents == [inputs |-> <<>>, inputs_dependency |-> <<>>, outputs |-> <<>>, logs |-> <<>>]

\* what work.get_new_input_output_maps(mapped_input_output_maps={}) returns
NewMapChoices ==
    {<<>>,
     NewMapChoice,
     <<[NoContents EXCEPT
          !.inputs = <<WorkContent(911, CollIdOf.inputs, Given(1), Given(2),
                                   "absent", "absent")>>,
          !.outputs = <<WorkContent(913, CollIdOf.outputs, Given(1), Given(2),
                                    "absent", "absent")>>]>>,
     <<[NoContents EXCEPT
          !.logs = <<WorkContent(924, CollIdOf.logs, Absent, Absent, "None", "None")>>]>>,
     <<[NoContents EXCEPT
          !.inputs_dependency =
              <<WorkContent(932, CollIdOf.inputs_dependency, Null, Null,
                            "FinalFailed", "None")>>]>>,
     <<[NoContents EXCEPT
          !.inputs = <<WorkContent(941, CollIdOf.inputs, Given(5), Null,
                                   "Available", "Available"),
                       WorkContent(942, CollIdOf.inputs, Absent, Given(6),
                                   "None", "New")>>,
          !.outputs = <<WorkContent(943, CollIdOf.outputs, Null, Absent,
                                    "None", "absent")>>],
       [NoContents EXCEPT
          !.inputs_dependency =
              <<WorkContent(952, CollIdOf.inputs_dependency, Absent, Absent,
                            "New", "New")>>,
          !.logs = <<WorkContent(954, CollIdOf.logs, Given(8), Given(9),
                                 "Available", "absent")>>]>>}

NewTransforms ==
    [transform_id : {1}, transform_type : {"Processing"},
     status : NewStatuses, retries : {0}]

NoAnswers ==
    [is_finished |-> FALSE, is_subfinished |-> FALSE, is_failed |-> FALSE,
     is_expired |-> FALSE, is_cancelled |-> FALSE, is_suspended |-> FALSE,
     is_terminated |-> FALSE, should_release_inputs |-> FALSE,
     use_dependency_to_release_jobs |-> FALSE]

\* the collections of the Work and what the repository hands back later
NewCollections ==
    [input_collections |-> <<Collection(CollIdOf.inputs)>>,
     output_collections |-> <<Collection(CollIdOf.outputs)>>,
     log_collections |-> <<Collection(CollIdOf.logs)>>]

NoRepo == [release |-> <<>>, poll |-> <<>>, final_release |-> <<>>]

NewPass ==
    /\ ~passOut.done
    /\ \E transform \in NewTransforms, processing \in ProcessingChoices,
          new_maps \in NewMapChoices :
        LET work == MkWork(NoAnswers, NewCollections, processing, new_maps)
        IN  /\ passIn' = [given |-> TRUE, transform |-> transform, work |-> work,
                          maps |-> <<>>, repo |-> NoRepo]
            /\ passOut' = [done |-> TRUE,
                           ret |-> handle_new_transform_real(transform, work)]
    /\ UNCHANGED <<passAgain, cvars, avars, hvars>>

\* the processing of the Work as the next pass loads it: the store gives the
\* processing its processing_id when it commits a bundle that holds a new
\* processing model; a write of parameters only stores nothing of the Work
ProcessingStored(processing, ret, written) ==
    IF written /\ ret.new_processing.present THEN "persisted" ELSE processing

\* the row as update_transform left it (lines 467-514): the parameters of the
\* bundle when the bundle was written, otherwise status Transforming and
\* retries + 1 of the parameter-only write
RowStored(transform, ret, written) ==
    IF written
    THEN [transform EXCEPT !.status = ret.transform_parameters.status]
    ELSE [transform EXCEPT !.status = "Transforming", !.retries = @ + 1]

\* what work.get_new_input_output_maps(registered maps) returns at line 848
\* of the pass after the new pass: the maps not yet registered.  The bundle
\* written registered the maps of the new pass; after the parameter-only
\* write none is registered and the Work gives the maps of line 378 again
NewMapsAfter(new_maps, written) ==
    IF written THEN <<>> ELSE new_maps

\* the first update pass after the new pass.  When update_transform wrote the
\* bundle, the new contents are registered; when only its parameter-only
\* write went through (lines 505-514), nothing of the bundle is stored and
\* the pass finds the maps of the new pass as new maps again.  An operator
\* may have set a To* status on the row since.
FirstUpdatePass ==
    /\ passOut.done
    /\ ~passAgain.done
    /\ \E operation \in {"none"} \cup OperationStatuses, answers \in PassWorks,
          written \in BOOLEAN :
        LET ret == passOut.ret
            stored == RowStored(passIn.transform, ret, written)
            transform == IF operation = "none" THEN stored
                         ELSE [stored EXCEPT !.status = operation]
            work == MkWork(answers,
                           [input_collections |-> passIn.work.input_collections,
                            output_collections |-> passIn.work.output_collections,
                            log_collections |-> passIn.work.log_collections],
                           ProcessingStored(passIn.work.processing, ret, written),
                           NewMapsAfter(passIn.work.new_input_output_maps, written))
            maps == IF written
                    THEN get_transform_input_output_maps(
                             <<>>, [new_contents |-> ret.new_contents,
                                    update_contents |-> <<>>])
                    ELSE <<>>
        IN  passAgain' = [done |-> TRUE, written |-> written,
                          transform |-> transform, work |-> work, maps |-> maps,
                          ret |-> handle_update_transform_real(
                                      transform, work, maps, passIn.repo)]
    /\ UNCHANGED <<passIn, passOut, cvars, avars, hvars>>

NewNext == NewPass \/ FirstUpdatePass

SpecNew == PassInit /\ [][NewNext]_vars

\* the contents of the Work's maps with their map and role
WorkContents(maps) ==
    UNION {{[map_id |-> i, role |-> "Input", c |-> maps[i].inputs[k]] :
               k \in DOMAIN maps[i].inputs}
           \cup {[map_id |-> i, role |-> "InputDependency",
                  c |-> maps[i].inputs_dependency[k]] :
                    k \in DOMAIN maps[i].inputs_dependency}
           \cup {[map_id |-> i, role |-> "Output", c |-> maps[i].outputs[k]] :
                    k \in DOMAIN maps[i].outputs}
           \cup {[map_id |-> i, role |-> "Log", c |-> maps[i].logs[k]] :
                    k \in DOMAIN maps[i].logs} : i \in DOMAIN maps}

NewPassed == passIn.given /\ passOut.done /\ passIn.transform.status \in NewStatuses

\* the row, the processing and the File messages of a new pass: Transforming,
\* Idle, now + poll_time_period; a processing model with status New when the
\* processing has no id; one File message per non-empty list among the new
\* inputs and the new outputs
NewPassFrame ==
    LET ret == passOut.ret
        nc == ret.new_contents
        ins == SelectSeq(nc, LAMBDA c : c.content_relation_type = "Input")
        outs == SelectSeq(nc, LAMBDA c : c.content_relation_type = "Output")
        with(relation_type) ==
            {i \in DOMAIN ret.messages : ret.messages[i].relation_type = relation_type}
    IN  /\ ret.transform_parameters.status = "Transforming"
        /\ ret.transform_parameters.locking = "Idle"
        /\ ret.transform_parameters.next_poll_at
               = [period |-> "poll_time_period", times |-> 1]
        /\ passIn.work.processing # "persisted"
               => ret.new_processing = [present |-> TRUE, status |-> "New"]
        /\ passIn.work.processing = "persisted" => ~ret.new_processing.present
        /\ \A i \in DOMAIN ret.messages :
               /\ ret.messages[i].msg_type[2] = "File"
               /\ ret.messages[i].relation_type \in {"input", "output"}
        /\ Cardinality(with("input")) = IF ins = <<>> THEN 0 ELSE 1
        /\ Cardinality(with("output")) = IF outs = <<>> THEN 0 ELSE 1
        /\ \A i \in with("input") : ret.messages[i].num_contents = Len(ins)
        /\ \A i \in with("output") : ret.messages[i].num_contents = Len(outs)

\* C21: a successful new pass returns Transforming, Idle and
\* now + poll_time_period, all new contents with status New, a processing
\* model with status New when the processing has no persisted id, and one File
\* message per non-empty list among new inputs and new outputs.
C21_NewPassAllNew ==
    NewPassed =>
        /\ NewPassFrame
        /\ \A i \in DOMAIN passOut.ret.new_contents :
               passOut.ret.new_contents[i].status = "New"


\* the value the Work's map gives for an id: an integer, or nothing
GivenId(o) == o.key /\ ~o.null

\* C23: every content get_new_contents produces, whatever its role, has
\* integer min_id and max_id: the value of the Work's map when it gives one,
\* 0 when the key is absent or its value is null.
C23_IdsDefaultToZero ==
    NewPassed =>
        \A i \in DOMAIN passOut.ret.new_contents :
            LET content == passOut.ret.new_contents[i]
                given == CHOOSE w \in WorkContents(passIn.work.new_input_output_maps) :
                             w.c.name = content.name
            IN  /\ content.min_id \in Nat
                /\ content.max_id \in Nat
                /\ content.min_id = IF GivenId(given.c.min_id) THEN given.c.min_id.v ELSE 0
                /\ content.max_id = IF GivenId(given.c.max_id) THEN given.c.max_id.v ELSE 0

\* new contents of all four roles, with an absent and with a null id among the
\* entries of the Work's maps
C23_Witness ==
    /\ NewPassed
    /\ {passOut.ret.new_contents[i].content_relation_type :
            i \in DOMAIN passOut.ret.new_contents}
           = {"Input", "InputDependency", "Output", "Log"}
    /\ \E w \in WorkContents(passIn.work.new_input_output_maps) :
           ~w.c.min_id.key /\ w.c.max_id.null
    /\ \E w \in WorkContents(passIn.work.new_input_output_maps) :
           w.c.min_id.null /\ w.c.max_id.key /\ ~w.c.max_id.null
    /\ \A i \in DOMAIN passOut.ret.new_contents :
           passOut.ret.new_contents[i].min_id \in {0, 3}


\* C25: with no command message pending and nothing raised by the Work plugin
\* or the repository, handle_update_transform returns the bundle of the full
\* update pass, with retries 0 and locking Idle, and not the error bundle
\* that carries retries + 1.
C25_NoMessageRunsThePass ==
    hnd.pc # "idle" /\ hnd.method = "handle_update_transform" /\ hnd.msgs = <<>> =>
        /\ "pass" \in DOMAIN hnd.ret
        /\ hnd.ret.transform_parameters.retries = 0
        /\ hnd.ret.transform_parameters.locking = "Idle"
        /\ hnd.ret.transform_parameters.retries # hnd.transform.retries + 1


\* the names of the Work's entries of one role, and of the contents of a list
EntryNames(maps, role) == {w.c.name : w \in {x \in WorkContents(maps) : x.role = role}}
ListNames(list) == {list[i].name : i \in DOMAIN list}

\* a list holds exactly the entries of its role, each with that relation type
ListOfRole(list, maps, role) ==
    /\ ListNames(list) = EntryNames(maps, role)
    /\ Len(list) = Cardinality(EntryNames(maps, role))
    /\ \A i \in DOMAIN list : list[i].content_relation_type = role

\* C27: get_new_contents partitions the contents of the Work's maps into four
\* lists by role: the inputs entries in the Inputs list with relation type
\* Input, the inputs_dependency entries in the InputDependencies list with
\* InputDependency, the outputs entries in the Outputs list with Output and
\* the logs entries in the Logs list with Log; no content is in the list of
\* another role.
C27_FourListsByRole ==
    NewPassed =>
        LET maps == passIn.work.new_input_output_maps
            lists == get_new_contents(maps)
        IN  /\ ListOfRole(lists.new_input_contents, maps, "Input")
            /\ ListOfRole(lists.new_input_dependency_contents, maps, "InputDependency")
            /\ ListOfRole(lists.new_output_contents, maps, "Output")
            /\ ListOfRole(lists.new_log_contents, maps, "Log")


\* the processing model a pass may emit for a Work in this state
EmitsOnlyUnpersisted(work, ret, status) ==
    /\ ret.new_processing.present <=> work.processing # "persisted"
    /\ ret.new_processing.present => ret.new_processing.status = status
    /\ ~ret.new_processing.present => ret.new_processing.status = "None"

\* C30: a new or an update pass emits a new processing model only when the
\* Work's processing has no persisted processing_id, one per pass at most,
\* with status New, or with the matching To* status in an update pass on a
\* To* transform; once a processing model has been persisted, the next pass
\* on the transform emits none.
C30_ProcessingEmittedOnce ==
    /\ NewPassed => EmitsOnlyUnpersisted(passIn.work, passOut.ret, "New")
    /\ NewPassed /\ passAgain.done =>
        /\ EmitsOnlyUnpersisted(passAgain.work, passAgain.ret,
               IF passAgain.transform.status \in
                      {"ToCancel", "ToSuspend", "ToResume", "ToExpire",
                       "ToFinish", "ToForceFinish"}
               THEN passAgain.transform.status ELSE "New")
        /\ passAgain.written /\ passOut.ret.new_processing.present
               => ~passAgain.ret.new_processing.present
        /\ passIn.work.processing = "persisted"
               => ~passAgain.ret.new_processing.present

\* the new pass emitted a processing model that was persisted, and the next
\* pass, on the transform set to ToCancel meanwhile, emits none
C30_Witness ==
    /\ NewPassed /\ passAgain.done /\ passAgain.written
    /\ passIn.work.processing = "None"
    /\ passOut.ret.new_processing = [present |-> TRUE, status |-> "New"]
    /\ passAgain.transform.status = "ToCancel"
    /\ ~passAgain.ret.new_processing.present


\* C34: after a ResumeTransformEvent was handled for a transform that is not
\* Finished, the row is Resuming with retries 0 and locking Idle, the bundle
\* written held the collections (set to Open) and the reset records of
\* reactive_contents, and exactly one event was published:
\* ResumeProcessingEvent for the processing when it has a persisted id,
\* otherwise UpdateTransformEvent; the row is never written Cancelling.
C34_ResumeWritesResuming ==
    Handled({"process_resume_transform"}, AllStatuses \ {"Finished"}) =>
        /\ db.row.status = "Resuming"
        /\ db.row.status # "Cancelling"
        /\ db.row.retries = 0
        /\ db.row.locking = "Idle"
        /\ sent \in {<<HandlerEvent("ResumeProcessingEvent", 31)>>,
                     <<HandlerEvent("UpdateTransformEvent", 1)>>}


\* C35: a call made for a transform in a terminal status by the abort
\* handler leaves the status as it is: the call of process_abort_transform,
\* and the call of update_transform with a bundle that sets no status, also
\* when the write of the bundle fails with a storage error and
\* update_transform makes its fallback write.
C35_TerminalStatusStays ==
    (/\ hnd.pc # "idle"
     /\ hnd.caller = "process_abort_transform"
     /\ hnd.method \in {"process_abort_transform", "update_transform"}
     /\ hnd.transform.status \in TerminalStatuses)
        => db.row.status = hnd.transform.status


\* the processing events among those published
ProcessingEvents ==
    {i \in DOMAIN sent : sent[i].type \in {"NewProcessingEvent", "UpdateProcessingEvent"}}

\* C38: a NewProcessingEvent or UpdateProcessingEvent is published only for a
\* processing id returned by a call of add_transform_outputs that committed
\* the bundle, and only after update_transform has returned; when the write
\* of the bundle and the parameter-only write both fail, no id is returned
\* and no processing event is published.
C38_ProcessingEventsFollowCommit ==
    /\ \A i \in ProcessingEvents :
        /\ hnd.pc = "done"
        /\ hnd.written = "bundle"
        /\ db.commits = 1
        /\ sent[i].type = "NewProcessingEvent" =>
               sent[i].id \in Range(new_pr_ids(hnd.ret))
        /\ sent[i].type = "UpdateProcessingEvent" =>
               sent[i].id \in Range(update_pr_ids(hnd.ret))
    /\ hnd.pc \in {"update_transform", "fallback"} => ProcessingEvents = {}
    /\ hnd.pc \in {"send", "done"} /\ db.commits = 0 =>
        /\ hnd.new_pr_ids = <<>> /\ hnd.update_pr_ids = <<>>
        /\ ProcessingEvents = {}

\* the bundle of a new transform met a deadlock and was committed by the
\* second call; update_transform returned the id of the new processing and
\* process_new_transform then published its NewProcessingEvent
C38_Witness ==
    /\ hnd.pc = "done"
    /\ hnd.caller = "process_new_transform" /\ ~hnd.handler_raised
    /\ db.calls = 2 /\ db.commits = 1
    /\ hnd.written = "bundle"
    /\ hnd.new_pr_ids = <<21>>
    /\ ProcessingEvents = {1}
    /\ sent[1] = HandlerEvent("NewProcessingEvent", 21)


\* a message is pending for the transform handle_update_transform is called
\* with
MessageFetched ==
    /\ hnd.pc # "idle"
    /\ hnd.method = "handle_update_transform"
    /\ hnd.msgs # <<>>

\* C40: whenever handle_update_transform fetches a pending command message,
\* the bundle it returns marks that message Delivered or Failed, also when
\* the message has no command, so that the write of the bundle leaves the
\* message in a status other than New and it is not fetched again.
C40_FetchedMessageIsSettled ==
    MessageFetched =>
        /\ "update_messages" \in DOMAIN hnd.ret
        /\ \E status \in {"Delivered", "Failed"} :
               hnd.ret.update_messages =
                   <<[msg_id |-> hnd.msgs[1].msg_id, status |-> status]>>
        /\ hnd.written = "bundle" => db.message \in {"Delivered", "Failed"}

====
